---- MODULE Spec2Model ----
(***************************************************************************)
(* Model of the system-state analyzer: the analyzer registry, the snapshot *)
(* loader and SystemStateAnalyzer.analyze_snapshot with the standard,      *)
(* generic and chunked (Network, InstalledPrograms) analysis paths, the    *)
(* prompts they send and the files they write.  JSON values are            *)
(* abstracted to their container shape and the keys the code tests.        *)
(***************************************************************************)
EXTENDS Integers, Sequences, FiniteSets, TLC

VARIABLES
    registry,      \* SectionAnalyzerRegistry._registry: ordered dict, a sequence of [name, cls]
    regLog,        \* history of register() calls, oldest first
    lookupResult,  \* argument and result of the last get_analyzer() call
    env,           \* inputs of the run: the snapshot directory on disk and the call's arguments
    phase,         \* position of analyze_snapshot
    sections,      \* system_data["sections"]: ordered dict, a sequence of [name, payload]
    idx,           \* index of the section the loop is at (1-based)
    pc,            \* position inside the processing of section idx
    report,        \* analysis_result["sections"]: ordered dict, a sequence of [name, result]
    summary,       \* analysis_result["summary"], NoResult while the key is not set
    raised,        \* exception that left analyze_snapshot, "None" if none
    events,        \* LLM client trace: request and response events, oldest first
    inflight,      \* number of LLM requests sent and not yet answered
    compIdx,       \* chunked analysis: index of the component the loop is at
    allIssues,     \* chunked analysis: all_issues
    allOpts,       \* chunked analysis: all_optimizations
    compSummaries, \* chunked analysis: component_summaries / category_summaries
    buckets,       \* InstalledPrograms: categorized_programs, a sequence of [name, programs]
    outFiles,      \* files written under output_dir, in the order they are written
    errorLog,      \* logger.error records written while the response of an LLM call is handled
    first,         \* outcome of an earlier run on the same snapshot (empty when there is none)
    metrics        \* the mapping the last call of an analyzer's extract_key_metrics returned

vars == <<registry, regLog, lookupResult, env, phase, sections, idx, pc, report,
          summary, raised, events, inflight, compIdx, allIssues, allOpts, compSummaries,
          buckets, outFiles, errorLog, first, metrics>>

runVars == <<env, phase, sections, idx, pc, report, summary, raised, events,
             inflight, compIdx, allIssues, allOpts, compSummaries, buckets, outFiles,
             errorLog, first, metrics>>

----
\* Bounds of the model

MaxSections == 2
MaxRegs == 3
MaxFullSections == 1
MaxTwinSections == 1
MaxPrograms == 2
MaxHarvest == 2
MaxOver == 2
MaxConnections == 2

----
\* Ordered dictionaries (Python dict keeps insertion order; assignment to an
\* existing key keeps its position)

RECURSIVE DictIndex(_, _, _)
DictIndex(d, k, i) ==
    IF i > Len(d) THEN 0
    ELSE IF d[i].name = k THEN i
    ELSE DictIndex(d, k, i + 1)

DictHas(d, k) == DictIndex(d, k, 1) # 0

DictKeys(d) == [i \in 1..Len(d) |-> d[i].name]

DictKeySet(d) == {d[i].name : i \in 1..Len(d)}

DictSet_move_to_end(d, k, v) ==
    Append(SelectSeq(d, LAMBDA entry : entry.name # k), [name |-> k, val |-> v])

\* d[k] = v: a new key goes last, an existing key keeps its position
DictSet(d, k, v) ==
    IF DictHas(d, k)
    THEN [d EXCEPT ![DictIndex(d, k, 1)] = [name |-> k, val |-> v]]
    ELSE Append(d, [name |-> k, val |-> v])

DictGet(d, k, default) ==
    IF DictHas(d, k) THEN d[DictIndex(d, k, 1)].val ELSE default

----
\* Analyzer classes and the registry

AnalyzerClasses ==
    {"PathAnalyzer", "InstalledProgramsAnalyzer", "StartupProgramsAnalyzer",
     "RunningServicesAnalyzer", "DiskSpaceAnalyzer", "PerformanceDataAnalyzer",
     "NetworkAnalyzer", "EnvironmentAnalyzer", "network.NetworkAnalyzer"}

section_name(cls) ==
    CASE cls = "PathAnalyzer" -> "Path"
      [] cls = "InstalledProgramsAnalyzer" -> "InstalledPrograms"
      [] cls = "StartupProgramsAnalyzer" -> "StartupPrograms"
      [] cls = "RunningServicesAnalyzer" -> "RunningServices"
      [] cls = "DiskSpaceAnalyzer" -> "DiskSpace"
      [] cls = "PerformanceDataAnalyzer" -> "PerformanceData"
      [] cls = "NetworkAnalyzer" -> "Network"
      [] cls = "EnvironmentAnalyzer" -> "Environment"
      [] cls = "network.NetworkAnalyzer" -> "Network"

USES_CHUNKING(cls) ==
    cls \in {"InstalledProgramsAnalyzer", "NetworkAnalyzer", "network.NetworkAnalyzer"}

ImportOrder ==
    <<"PathAnalyzer", "InstalledProgramsAnalyzer", "StartupProgramsAnalyzer",
      "RunningServicesAnalyzer", "DiskSpaceAnalyzer", "PerformanceDataAnalyzer",
      "NetworkAnalyzer", "EnvironmentAnalyzer">>

NoAnalyzer == "None"

register_keep_first(reg, cls) ==
    IF DictHas(reg, section_name(cls)) THEN reg
    ELSE Append(reg, [name |-> section_name(cls), val |-> cls])

register(reg, cls) == DictSet(reg, section_name(cls), cls)

get_analyzer(reg, name) == DictGet(reg, name, NoAnalyzer)

\* list(cls._registry.keys())
get_all_section_names(reg) == DictKeys(reg)

RECURSIVE RegisterAll(_, _)
RegisterAll(reg, classes) ==
    IF classes = <<>> THEN reg
    ELSE RegisterAll(register(reg, Head(classes)), Tail(classes))

----
\* Abstract JSON values held by the snapshot files

SectionNames == {"Path", "Network", "Foo"}

Components == <<"adapters", "ip_config", "dns", "connections">>

Payload(shape, hasError, errval, elemsOk, comps) ==
    [shape |-> shape, hasError |-> hasError, errval |-> errval,
     elemsOk |-> elemsOk, comps |-> comps, items |-> <<>>, size |-> 2]

\* a payload whose JSON serialization (json.dumps) is `size` characters long
Sized(payload, size) == [payload EXCEPT !.size = size]

ListOfMappings == Payload("list", FALSE, "-", TRUE, <<>>)
ListOfScalars == Payload("list", FALSE, "-", FALSE, <<>>)
PlainDict == Payload("dict", FALSE, "-", TRUE, <<>>)
DictWithErrorKey == Payload("dict", TRUE, "collector failed", TRUE, <<>>)
Scalar == Payload("scalar", FALSE, "-", TRUE, <<>>)
\* an entry of ActiveConnections: its RemoteAddress string, given as the
\* tokens that remote.split(":") yields (one token when it has no colon)
Connection(tokens) == [remote |-> tokens]

\* the Network mapping: the components that are not empty; of their entries
\* only those of ActiveConnections are modelled, in the field items
NetworkDict(comps, elemsOk) ==
    [Payload("dict", FALSE, "-", elemsOk, comps)
        EXCEPT !.items = IF \E k \in 1..Len(comps) : comps[k] = "connections"
                         THEN <<Connection(<<"10.0.0.5", "50000">>)>> ELSE <<>>]

NetworkWith(comps, connections) ==
    [Payload("dict", FALSE, "-", TRUE, comps) EXCEPT !.items = connections]

File(state, hasData, content) ==
    [state |-> state, hasData |-> hasData, content |-> content]

MissingFile == File("missing", FALSE, Scalar)
BadJsonFile == File("badjson", FALSE, Scalar)
UnreadableFile == File("unreadable", FALSE, Scalar)
Wrapped(content) == File("ok", TRUE, content)
Unwrapped(content) == File("ok", FALSE, content)

FileChoices(name) ==
    CASE name = "Path" ->
            {MissingFile, Wrapped(ListOfMappings), Wrapped(ListOfScalars)}
      [] name = "Network" ->
            {BadJsonFile, Wrapped(ListOfMappings),
             Wrapped(NetworkDict(<<>>, TRUE)),
             Wrapped(NetworkDict(<<"adapters">>, TRUE)),
             Wrapped(NetworkDict(<<"adapters", "connections">>, TRUE)),
             Wrapped(NetworkDict(<<"adapters">>, FALSE))}
      [] OTHER ->
            {UnreadableFile, Wrapped(PlainDict), Unwrapped(DictWithErrorKey)}

----
\* SystemStateDataLoader.load_snapshot_data

LoadError(msg) == Payload("dict", TRUE, msg, TRUE, <<>>)

\* the index: index.json's keys, or the *.json files found in the directory
SnapshotIndex(e) ==
    IF e.indexFile = "ok" THEN e.index
    ELSE SelectSeq(e.index, LAMBDA n : e.files[n].state # "missing")

SectionsToInclude(e, index) ==
    IF e.focus = <<>> \/ \E i \in 1..Len(e.focus) : e.focus[i] = "All"
    THEN index
    ELSE SelectSeq(e.focus, LAMBDA n : \E i \in 1..Len(index) : index[i] = n)

LoadSection(f) ==
    CASE f.state = "missing" -> LoadError("File not found")
      [] f.state = "badjson" -> LoadError("Failed to parse JSON")
      [] f.state = "unreadable" -> LoadError("Failed to load")
      [] OTHER -> f.content

RECURSIVE LoadSections(_, _, _)
LoadSections(e, names, acc) ==
    IF names = <<>> THEN acc
    ELSE LoadSections(e, Tail(names),
                      DictSet(acc, Head(names), LoadSection(e.files[Head(names)])))

RECURSIVE LoadedCount(_, _)
LoadedCount(e, names) ==
    IF names = <<>> THEN 0
    ELSE (IF e.files[Head(names)].state = "ok" THEN 1 ELSE 0)
         + LoadedCount(e, Tail(names))

Loaded(ok, err, secs) == [ok |-> ok, err |-> err, sections |-> secs]

load_snapshot_data(e) ==
    LET index == SnapshotIndex(e)
        incl == SectionsToInclude(e, index)
    IN  IF ~e.dirOk THEN Loaded(FALSE, "Snapshot directory not found", <<>>)
        ELSE IF ~e.metaOk THEN Loaded(FALSE, "Metadata file not found", <<>>)
        ELSE IF e.indexFile = "bad" THEN Loaded(FALSE, "Error parsing index.json", <<>>)
        ELSE IF e.indexFile = "absent" /\ index = <<>>
             THEN Loaded(FALSE, "No data files found", <<>>)
        ELSE IF incl = <<>> /\ ~(e.focus = <<>> \/ \E i \in 1..Len(e.focus) : e.focus[i] = "All")
             THEN Loaded(FALSE, "None of the specified sections were found", <<>>)
        ELSE IF LoadedCount(e, incl) = 0
             THEN Loaded(FALSE, "Failed to load any sections", <<>>)
        ELSE Loaded(TRUE, "-", LoadSections(e, incl, <<>>))

----
\* Analysis results (abstract JSON values produced by the analysis)

Result(shape, keys, error, issues, opts, text) ==
    [shape |-> shape, keys |-> keys, error |-> error, issues |-> issues,
     optimizations |-> opts, summary |-> text]

NoResult == Result("absent", {}, "-", <<>>, <<>>, <<>>)

\* a summary text is a sequence of lines (Python joins them with "\n")
Line(prefix, body) == [prefix |-> prefix, body |-> body]

\* an issue or optimization; `component` and `category` are the tags the
\* chunked analyzers add ("-" while the key is absent)
Issue(severity) == [severity |-> severity, component |-> "-", category |-> "-"]
Optimization(impact) == [impact |-> impact, component |-> "-", category |-> "-"]

\* Python's `key in value`: membership of a key for a dict, of an element for
\* a list, TypeError for a number, a boolean or null
InRaises(r) == r.shape = "scalar"
In(key, r) == r.shape = "dict" /\ key \in r.keys

\* {"error": <the payload's error>}    (analyzer.py line 100)
CopiedError(payload) == Result("dict", {"error"}, payload.errval, <<>>, <<>>, <<>>)

\* {"error": "Analysis failed: ...", "traceback": ...}
AnalysisFailed == Result("dict", {"error", "traceback"}, "Analysis failed", <<>>, <<>>, <<>>)

\* {"error": "Summary generation failed: ...", "traceback": ...}
SummaryFailed ==
    Result("dict", {"error", "traceback"}, "Summary generation failed", <<>>, <<>>, <<>>)

----
\* The LLM client and the JSON extractor

\* outcomes of LMStudioClient.generate: it raises, or returns text that holds
\* no JSON, a JSON object, a JSON number/boolean/null, or a JSON array
Responses == {"raise", "garbage", "object", "scalar", "array"}

Sentinel ==
    Result("dict", {"error", "message", "raw_response"}, "True", <<>>, <<>>, <<>>)

LLMObject ==
    Result("dict", {"issues", "optimizations", "summary"}, "-",
           <<Issue("high"), Issue("low")>>, <<Optimization("medium")>>, <<Line("-", "LLM summary")>>)

extract_json_from_response_raising(response) ==
    CASE response = "object" -> LLMObject
      [] response = "scalar" -> Result("scalar", {}, "-", <<>>, <<>>, <<>>)
      [] response = "array" -> Result("list", {}, "-", <<>>, <<>>, <<>>)
      [] OTHER -> AnalysisFailed

extract_json_from_response(response) ==
    CASE response = "object" -> LLMObject
      [] response = "scalar" -> Result("scalar", {}, "-", <<>>, <<>>, <<>>)
      [] response = "array" -> Result("list", {}, "-", <<>>, <<>>, <<>>)
      [] OTHER -> Sentinel

\* a prompt, abstracted to the template it is built from, the section name
\* its text embeds ("-" when it names no section), the blocks of text it is
\* made of, in order, the issues it lists, the section JSON it embeds (its
\* first `chars` characters, followed or not by the truncation marker), and
\* the entries of a category or component it is built from
NoJson == [chars |-> 0, marker |-> FALSE]

PromptText(template, names, parts, items) ==
    [template |-> template, names |-> names, parts |-> parts, items |-> items,
     embedded |-> NoJson, sample |-> <<>>]

Prompt(template, names) == PromptText(template, names, <<>>, <<>>)

NoPrompt == Prompt("-", "-")

Request(section, unit, prompt) ==
    [kind |-> "request", section |-> section, unit |-> unit, outcome |-> "-",
     prompt |-> prompt]
Response(section, unit, outcome) ==
    [kind |-> "response", section |-> section, unit |-> unit, outcome |-> outcome,
     prompt |-> NoPrompt]

----
\* PromptEngine and the analyzers' prompt builders

\* blocks of prompt text:
\*   "section_line"  You are analyzing the '{section_name}' section of a
\*                   Windows system state snapshot.
\*   "instructions"  what to analyze (the analyzer's or the template's own text)
\*   "data"          the JSON data, metrics or summaries given to the LLM
\*   "schema"        Provide your ... as JSON with the following structure: {...}
\*   "json_only"     Important: Respond ONLY with valid JSON, no other text
\*                   before or after.
\*   "category_line" You are analyzing {category} software installed on a
\*                   Windows system.
\*   "component_line" Analyze this {component_name} component of a Windows
\*                   network configuration.
\*   "summary_line"  the opening line of a summary prompt
\*   "format_hint"   Provide JSON (analysis) with ... (no structure given)

MAX_SECTION_JSON == 10000

truncate_json_at_cap(size) ==
    IF size >= MAX_SECTION_JSON
    THEN [chars |-> MAX_SECTION_JSON, marker |-> TRUE]
    ELSE [chars |-> size, marker |-> FALSE]

\* lines 71-73: section_json[:10000] + "... [truncated for length]" when
\* len(section_json) > 10000
truncate_json(size) ==
    IF size > MAX_SECTION_JSON
    THEN [chars |-> MAX_SECTION_JSON, marker |-> TRUE]
    ELSE [chars |-> size, marker |-> FALSE]

_create_generic_prompt_unnamed(name, data) ==
    [PromptText("generic", "-",
                <<"section_line", "instructions", "data", "schema", "json_only">>, <<>>)
        EXCEPT !.embedded = truncate_json(data.size)]

_create_generic_prompt(name, data) ==
    [PromptText("generic", name,
                <<"section_line", "instructions", "data", "schema", "json_only">>, <<>>)
        EXCEPT !.embedded = truncate_json(data.size)]

\* every analyzer's create_prompt: instructions, metrics and the JSON data
create_prompt(cls, data) == <<"instructions", "data">>

build_prompt_wrapper(cls, data) ==
    PromptText("analyzer", section_name(cls),
               <<"section_line">> \o create_prompt(cls, data) \o <<"schema", "json_only">>,
               <<>>)

create_section_prompt(reg, name, data) ==
    IF get_analyzer(reg, name) = NoAnalyzer
    THEN _create_generic_prompt(name, data)
    ELSE build_prompt_wrapper(get_analyzer(reg, name), data)

\* the entries of one component of the Network mapping; a component other
\* than ActiveConnections stands as one entry
ComponentData(data, component) ==
    IF component = "connections" THEN data.items ELSE <<component>>

component_sample_limit == 5

representative_sample_first(component_data) ==
    IF Len(component_data) > component_sample_limit
    THEN SubSeq(component_data, 1, component_sample_limit)
    ELSE component_data

\* lines 513-531: of a list of more than 5 entries the first two, two from
\* the middle and the last one are kept
representative_sample(component_data) ==
    IF Len(component_data) > component_sample_limit
    THEN LET middle_start == Len(component_data) \div 2 - 1
         IN  SubSeq(component_data, 1, 2)
                \o SubSeq(component_data, middle_start + 1, middle_start + 2)
                \o <<component_data[Len(component_data)]>>
    ELSE component_data

\* NetworkAnalyzer._create_component_prompt
_create_component_prompt(component, data) ==
    [PromptText(component, "-",
                <<"component_line", "instructions", "data", "format_hint">>, <<>>)
        EXCEPT !.sample = representative_sample(ComponentData(data, component))]

\* NetworkAnalyzer._create_overall_summary_prompt
_create_overall_summary_prompt(summaries) ==
    PromptText("chunk_summary", "Network", <<"summary_line", "data", "format_hint">>, <<>>)

\* InstalledProgramsAnalyzer._create_category_prompt
_create_category_prompt(category, programs) ==
    [PromptText(category, "-",
                <<"category_line", "instructions", "data", "schema", "json_only">>, <<>>)
        EXCEPT !.sample = programs]

\* InstalledProgramsAnalyzer._create_overall_summary_prompt
_create_programs_summary_prompt(summaries) ==
    PromptText("chunk_summary", "InstalledPrograms",
               <<"summary_line", "data", "schema", "json_only">>, <<>>)

\* lines 127-143 of prompt_engine.py: the critical and high issues of the
\* sections that have no "error" key, each with its section's name
Harvested(section, issue) == [section |-> section, severity |-> issue.severity]

important_of(section, analysis) ==
    IF In("error", analysis) THEN <<>>
    ELSE IF In("issues", analysis)
    THEN LET kept == SelectSeq(analysis.issues,
                               LAMBDA issue : issue.severity \in {"critical", "high"})
         IN  [k \in 1..Len(kept) |-> Harvested(section, kept[k])]
    ELSE <<>>

RECURSIVE important_issues(_)
important_issues(rep) ==
    IF rep = <<>> THEN <<>>
    ELSE important_of(Head(rep).name, Head(rep).val) \o important_issues(Tail(rep))

create_summary_prompt_all(rep) ==
    PromptText("overall", "-", <<"summary_line", "data", "schema", "json_only">>,
               LET all(section, analysis) ==
                       IF In("issues", analysis)
                       THEN [k \in 1..Len(analysis.issues) |->
                                Harvested(section, analysis.issues[k])]
                       ELSE <<>>
                   flat[i \in 0..Len(rep)] ==
                       IF i = 0 THEN <<>> ELSE flat[i - 1] \o all(rep[i].name, rep[i].val)
               IN  flat[Len(rep)])

create_summary_prompt(rep) ==
    PromptText("overall", "-", <<"summary_line", "data", "schema", "json_only">>,
               important_issues(rep))

----
\* Inputs of a run

RECURSIVE Orders(_)
Orders(n) ==
    IF n = 0 THEN {<<>>}
    ELSE LET shorter == Orders(n - 1)
         IN  shorter \cup {Append(o, x) : o \in shorter, x \in SectionNames}

IsDistinct(o) == \A i, j \in 1..Len(o) : i # j => o[i] # o[j]

SeqRange(o) == {o[i] : i \in 1..Len(o)}

IndexChoices == {o \in Orders(MaxSections) : IsDistinct(o)}

FilesFor(index) ==
    {f \in [SectionNames -> UNION {FileChoices(n) : n \in SectionNames} \cup {MissingFile}] :
        \A n \in SectionNames :
            IF n \in SeqRange(index) THEN f[n] \in FileChoices(n) ELSE f[n] = MissingFile}

FocusChoices == {<<>>, <<"All">>, <<"Network", "Path">>, <<"Ghost">>}

SetupChoices ==
    {[dirOk |-> FALSE, metaOk |-> TRUE, indexFile |-> "ok"],
     [dirOk |-> TRUE, metaOk |-> FALSE, indexFile |-> "ok"],
     [dirOk |-> TRUE, metaOk |-> TRUE, indexFile |-> "bad"],
     [dirOk |-> TRUE, metaOk |-> TRUE, indexFile |-> "absent"],
     [dirOk |-> TRUE, metaOk |-> TRUE, indexFile |-> "ok"]}

EnvsWith(ix) ==
    {[dirOk |-> su.dirOk, metaOk |-> su.metaOk, indexFile |-> su.indexFile,
      index |-> ix, files |-> f, focus |-> fo, outputFile |-> of, outputDir |-> "none"] :
        su \in SetupChoices, f \in FilesFor(ix), fo \in FocusChoices, of \in BOOLEAN}

Envs == UNION {EnvsWith(ix) : ix \in IndexChoices}

\* no extract_key_metrics call has returned yet, or the call was one of an
\* analyzer whose metrics are not modelled
NoMetrics == [analyzer |-> "-"]

\* `at` is the number of register() calls made before the lookup
NoLookup == [name |-> "-", result |-> NoAnalyzer, at |-> 0]

RunInit ==
    /\ phase = "Loading"
    /\ sections = <<>>
    /\ idx = 0
    /\ pc = "load"
    /\ report = <<>>
    /\ summary = NoResult
    /\ raised = "None"
    /\ events = <<>>
    /\ errorLog = <<>>
    /\ inflight = 0
    /\ compIdx = 0
    /\ allIssues = <<>>
    /\ allOpts = <<>>
    /\ compSummaries = <<>>
    /\ buckets = <<>>
    /\ outFiles = <<>>
    /\ metrics = NoMetrics

\* the state after SystemStateAnalyzer.__init__: PromptEngine() has imported
\* prompts.analyzers, which registers the analyzers in import order
Init ==
    /\ registry = RegisterAll(<<>>, ImportOrder)
    /\ regLog = ImportOrder
    /\ lookupResult = NoLookup
    /\ env \in Envs
    /\ first = <<>>
    /\ RunInit

----
\* SystemStateAnalyzer.analyze_snapshot

\* the registry and the record of an earlier run are left alone by a run
regUnchanged == UNCHANGED <<registry, regLog, lookupResult, first>>
metricsUnchanged == UNCHANGED metrics
chunkUnchanged == UNCHANGED <<compIdx, allIssues, allOpts, compSummaries, buckets>>

\* output_dir as the call finds it: "none" (not given), "ok", "blocked" (the
\* llm directory cannot be created) or "unwritable" (files cannot be opened
\* for writing in it)
WriteFails == env.outputDir = "unwritable"

\* llm/{section}_llm_interaction.json, llm/{section}_{unit}_llm_interaction.json
\* (unit "-" when the name has no unit part) and {section}Analysis.json with
\* the analysis it holds (the content of a log is not modelled)
LogFile(section, unit) ==
    [kind |-> "llm_interaction", section |-> section, unit |-> unit, val |-> NoResult]
AnalysisFile(section, analysis) ==
    [kind |-> "Analysis", section |-> section, unit |-> "-", val |-> analysis]

\* the `finally` blocks that write {section}_llm_interaction.json
SaveLog(files, section, unit) ==
    IF env.outputDir = "ok" THEN Append(files, LogFile(section, unit)) ELSE files

\* lines 279-301: write {section}Analysis.json; a failure is logged, not raised
_save_section_analysis(files, section, analysis) ==
    IF env.outputDir = "ok" THEN Append(files, AnalysisFile(section, analysis)) ELSE files

\* lines 64-91: load the snapshot, re-raise a loader failure; create the
\* llm log directory when output_dir is given
LoadSnapshot ==
    /\ phase = "Loading" /\ pc = "load"
    /\ LET loaded == load_snapshot_data(env)
       IN  IF ~loaded.ok
           THEN /\ raised' = "RuntimeError"
                /\ phase' = "Failed"
                /\ pc' = "raised"
                /\ UNCHANGED <<sections, idx>>
           ELSE IF env.outputDir = "blocked"
           THEN /\ sections' = loaded.sections
                /\ raised' = "OSError"
                /\ phase' = "Failed"
                /\ pc' = "raised"
                /\ idx' = idx
           ELSE /\ sections' = loaded.sections
                /\ phase' = "AnalyzingSections"
                /\ idx' = 1
                /\ pc' = "section"
                /\ raised' = raised
    /\ UNCHANGED <<env, report, summary, events, errorLog, inflight, outFiles>>
    /\ chunkUnchanged /\ regUnchanged /\ metricsUnchanged

AtSection ==
    /\ phase = "AnalyzingSections" /\ pc = "section"
    /\ idx <= Len(sections)

CurName == sections[idx].name
CurData == sections[idx].val

HasLoadError_never(payload) == FALSE

HasLoadError(payload) == payload.shape = "dict" /\ payload.hasError

FinishSection_drop_failed(result) ==
    /\ report' = IF result.shape = "dict" /\ "traceback" \in result.keys
                 THEN report
                 ELSE DictSet(report, CurName, result)
    /\ idx' = idx + 1
    /\ pc' = "section"

\* the section's result is stored and the loop moves to the next section
FinishSection(result) ==
    /\ report' = DictSet(report, CurName, result)
    /\ idx' = idx + 1
    /\ pc' = "section"

\* lines 97-101: a payload with an "error" key is copied through
SkipLoadError ==
    /\ AtSection
    /\ HasLoadError(CurData)
    /\ FinishSection(CopiedError(CurData))
    /\ UNCHANGED <<env, phase, sections, summary, raised, events, errorLog, inflight, outFiles>>
    /\ chunkUnchanged /\ regUnchanged /\ metricsUnchanged

SendRequest(section, unit, prompt) ==
    /\ events' = Append(events, Request(section, unit, prompt))
    /\ errorLog' = errorLog
    /\ inflight' = inflight + 1

\* when the run repeats an earlier run, the LLM answers as it did then
ReplayAllows(r) ==
    IF first = <<>> THEN TRUE
    ELSE IF Len(events) + 1 > Len(first[1].events) THEN TRUE
    ELSE first[1].events[Len(events) + 1].outcome = r

ReceiveResponse(section, unit, r) ==
    /\ ReplayAllows(r)
    /\ events' = Append(events, Response(section, unit, r))
    /\ inflight' = inflight - 1

\* a logger.error record: the function whose handler wrote it and the LLM call
\* that was being handled
LogRecord(logger, section, unit) == [logger |-> logger, section |-> section, unit |-> unit]

\* json_helper.py line 48: the extractor logs an error when it finds no JSON
ExtractorLog(section, unit, r) ==
    IF r = "garbage" THEN <<LogRecord("extract_json_from_response", section, unit)>> ELSE <<>>

\* the except clause around the call logs the exception it caught
HandlerLog(logger, section, unit, caught) ==
    IF caught THEN <<LogRecord(logger, section, unit)>> ELSE <<>>

\* analyzer.py line 188: the exception of the log write is caught and logged
WriteFailureLog(section, unit) == HandlerLog("analyze_snapshot", section, unit, WriteFails)

\* lines 105-127: no analyzer registered, generic prompt, one LLM call
GenericRequest ==
    /\ AtSection
    /\ ~HasLoadError(CurData)
    /\ get_analyzer(registry, CurName) = NoAnalyzer
    /\ SendRequest(CurName, "generic", create_section_prompt(registry, CurName, CurData))
    /\ pc' = "await_generic"
    /\ UNCHANGED <<env, phase, sections, idx, report, summary, raised, outFiles>>
    /\ chunkUnchanged /\ regUnchanged /\ metricsUnchanged

\* lines 127-152 and 181-193: the call returns or raises; the log is written
\* in the `finally`; parse, store and save.  An exception (of the call or of
\* the log write) is caught at lines 187-193
GenericResponse(r) ==
    /\ phase = "AnalyzingSections" /\ pc = "await_generic"
    /\ ReceiveResponse(CurName, "generic", r)
    /\ IF WriteFails
       THEN /\ FinishSection(AnalysisFailed)
            /\ outFiles' = outFiles
            /\ errorLog' = errorLog \o WriteFailureLog(CurName, "generic")
       ELSE IF r = "raise"
       THEN /\ FinishSection(AnalysisFailed)
            /\ outFiles' = SaveLog(outFiles, CurName, "-")
            /\ errorLog' = errorLog \o HandlerLog("analyze_snapshot", CurName, "generic", TRUE)
       ELSE /\ FinishSection(extract_json_from_response(r))
            /\ outFiles' = _save_section_analysis(SaveLog(outFiles, CurName, "-"), CurName,
                                                  extract_json_from_response(r))
            /\ errorLog' = errorLog \o ExtractorLog(CurName, "generic", r)
    /\ UNCHANGED <<env, phase, sections, summary, raised>>
    /\ chunkUnchanged /\ regUnchanged /\ metricsUnchanged

----
\* DiskSpaceAnalyzer.extract_key_metrics

CRITICAL_THRESHOLD == 5
WARNING_THRESHOLD == 10
ATTENTION_THRESHOLD == 15
SYSTEM_MIN_FREE_GB == 20

\* an entry of the DiskSpace list
Drive(name, percentFree, freeGB) ==
    [Name |-> name, PercentFree |-> percentFree, FreeGB |-> freeGB]

DriveList(drives) == [Payload("list", FALSE, "-", TRUE, <<>>) EXCEPT !.items = drives]

drive_status_system_only(drive) ==
    IF drive.Name = "C" /\ drive.FreeGB < SYSTEM_MIN_FREE_GB THEN "CRITICAL"
    ELSE IF drive.PercentFree <= WARNING_THRESHOLD THEN "WARNING"
    ELSE IF drive.PercentFree <= ATTENTION_THRESHOLD THEN "ATTENTION"
    ELSE "OK"

\* lines 84-93
drive_status(drive) ==
    IF \/ drive.PercentFree <= CRITICAL_THRESHOLD
       \/ (drive.Name = "C" /\ drive.FreeGB < SYSTEM_MIN_FREE_GB)
    THEN "CRITICAL"
    ELSE IF drive.PercentFree <= WARNING_THRESHOLD THEN "WARNING"
    ELSE IF drive.PercentFree <= ATTENTION_THRESHOLD THEN "ATTENTION"
    ELSE "OK"

Letters(drives) == [k \in 1..Len(drives) |-> drives[k].Name]

\* lines 53-125: the per-drive records and the two lists of drive letters
DiskSpace_extract_key_metrics(data) ==
    IF data.shape # "list" THEN [total_drives |-> 0]
    ELSE [total_drives |-> Len(data.items),
          drive_metrics |->
              [k \in 1..Len(data.items) |->
                  [letter |-> data.items[k].Name,
                   percent_free |-> data.items[k].PercentFree,
                   status |-> drive_status(data.items[k])]],
          drives_low_space |->
              Letters(SelectSeq(data.items,
                                LAMBDA d : drive_status(d) \in {"WARNING", "ATTENTION"})),
          drives_critical |->
              Letters(SelectSeq(data.items, LAMBDA d : drive_status(d) = "CRITICAL"))]

\* create_prompt computes the metrics of the section first; only those of
\* DiskSpaceAnalyzer are modelled
create_prompt_metrics(cls, data) ==
    IF cls = "DiskSpaceAnalyzer" THEN DiskSpace_extract_key_metrics(data) ELSE NoMetrics

\* create_prompt of a standard analyzer raises AttributeError when it calls
\* .get on a list element that is not a mapping (extract_key_metrics of
\* PathAnalyzer and DiskSpaceAnalyzer), and DiskSpaceAnalyzer's raises
\* KeyError on the metrics of a section that is not a list
PromptRaises(cls, payload) ==
    \/ cls = "PathAnalyzer" /\ payload.shape = "list" /\ ~payload.elemsOk
    \/ cls = "DiskSpaceAnalyzer" /\ (payload.shape # "list" \/ ~payload.elemsOk)

UsesStandard(name) ==
    /\ get_analyzer(registry, name) # NoAnalyzer
    /\ ~USES_CHUNKING(get_analyzer(registry, name))

UsesChunking(name) ==
    /\ get_analyzer(registry, name) # NoAnalyzer
    /\ USES_CHUNKING(get_analyzer(registry, name))

\* which analyze_with_chunking the dispatch at lines 164-172 reaches
IsNetwork(name) ==
    /\ UsesChunking(name)
    /\ get_analyzer(registry, name) \in {"NetworkAnalyzer", "network.NetworkAnalyzer"}

IsPrograms(name) ==
    /\ UsesChunking(name)
    /\ get_analyzer(registry, name) = "InstalledProgramsAnalyzer"

\* lines 153-179 and analyze_standard lines 166-167: building the prompt
\* raises outside analyze_standard's try; caught at lines 187-193
StandardPromptFails ==
    /\ AtSection
    /\ ~HasLoadError(CurData)
    /\ UsesStandard(CurName)
    /\ PromptRaises(get_analyzer(registry, CurName), CurData)
    /\ FinishSection(AnalysisFailed)
    /\ UNCHANGED <<env, phase, sections, summary, raised, events, errorLog, inflight, outFiles>>
    /\ chunkUnchanged /\ regUnchanged /\ metricsUnchanged

\* analyze_standard lines 166-180: prompt built, one LLM call
StandardRequest ==
    /\ AtSection
    /\ ~HasLoadError(CurData)
    /\ UsesStandard(CurName)
    /\ ~PromptRaises(get_analyzer(registry, CurName), CurData)
    /\ metrics' = create_prompt_metrics(get_analyzer(registry, CurName), CurData)
    /\ SendRequest(CurName, "standard",
                   build_prompt_wrapper(get_analyzer(registry, CurName), CurData))
    /\ pc' = "await_standard"
    /\ UNCHANGED <<env, phase, sections, idx, report, summary, raised, outFiles>>
    /\ chunkUnchanged /\ regUnchanged

post_process_results(analysis) == analysis

\* analyze_standard lines 180-209: parse and post-process, or the error
\* structure when the call raised
analyze_standard_result(r) ==
    IF r = "raise" THEN AnalysisFailed
    ELSE post_process_results(extract_json_from_response(r))

\* analyze_standard lines 178-218 and analyzer.py lines 181-193: the result
\* is stored and saved; an exception of the log write in the `finally`
\* leaves analyze_standard and is caught at analyzer.py lines 187-193
StandardResponse(r) ==
    /\ phase = "AnalyzingSections" /\ pc = "await_standard"
    /\ ReceiveResponse(CurName, "standard", r)
    /\ errorLog' = errorLog \o ExtractorLog(CurName, "standard", r)
                            \o HandlerLog("analyze_standard", CurName, "standard", r = "raise")
                            \o WriteFailureLog(CurName, "standard")
    /\ IF WriteFails
       THEN /\ FinishSection(AnalysisFailed)
            /\ outFiles' = outFiles
       ELSE /\ FinishSection(analyze_standard_result(r))
            /\ outFiles' = _save_section_analysis(SaveLog(outFiles, CurName, "-"), CurName,
                                                  analyze_standard_result(r))
    /\ UNCHANGED <<env, phase, sections, summary, raised>>
    /\ chunkUnchanged /\ regUnchanged /\ metricsUnchanged

----
\* NetworkAnalyzer.analyze_with_chunking

InvalidFormat == Result("dict", {"error"}, "Invalid network data format", <<>>, <<>>, <<>>)

Aggregated(issues, opts, text) ==
    Result("dict", {"issues", "optimizations", "summary"}, "-", issues, opts, text)

NoAnalysisText ==
    <<Line("-", "No analysis could be generated for any network components.")>>

upper(c) ==
    CASE c = "adapters" -> "ADAPTERS"
      [] c = "ip_config" -> "IP_CONFIG"
      [] c = "dns" -> "DNS"
      [] c = "connections" -> "CONNECTIONS"
      [] c = "security" -> "SECURITY"
      [] c = "bloatware" -> "BLOATWARE"
      [] c = "development" -> "DEVELOPMENT"
      [] c = "utilities" -> "UTILITIES"
      [] c = "recent" -> "RECENT"
      [] c = "other" -> "OTHER"

\* lines 356-357: the payload is not a dict
ChunkedInvalid ==
    /\ AtSection
    /\ ~HasLoadError(CurData)
    /\ IsNetwork(CurName)
    /\ CurData.shape # "dict"
    /\ FinishSection(InvalidFormat)
    /\ outFiles' = _save_section_analysis(outFiles, CurName, InvalidFormat)
    /\ UNCHANGED <<env, phase, sections, summary, raised, events, errorLog, inflight>>
    /\ chunkUnchanged /\ regUnchanged /\ metricsUnchanged

\* lines 359-370: accumulators and the component table
ChunkedBegin ==
    /\ AtSection
    /\ ~HasLoadError(CurData)
    /\ IsNetwork(CurName)
    /\ CurData.shape = "dict"
    /\ compIdx' = 1
    /\ allIssues' = <<>>
    /\ allOpts' = <<>>
    /\ compSummaries' = <<>>
    /\ pc' = "components"
    /\ UNCHANGED <<env, phase, sections, idx, report, summary, raised, events, errorLog, inflight,
                   buckets, outFiles>>
    /\ regUnchanged /\ metricsUnchanged

AtComponent ==
    /\ phase = "AnalyzingSections" /\ pc = "components"
    /\ compIdx <= Len(Components)

CurComponent == Components[compIdx]

ComponentEmpty(payload, c) == c \notin SeqRange(payload.comps)

\* lines 376-379: an empty component is skipped
ComponentSkip ==
    /\ AtComponent
    /\ ComponentEmpty(CurData, CurComponent)
    /\ compIdx' = compIdx + 1
    /\ UNCHANGED <<env, phase, sections, idx, pc, report, summary, raised, events, errorLog,
                   inflight, allIssues, allOpts, compSummaries, buckets, outFiles>>
    /\ regUnchanged /\ metricsUnchanged

\* lines 381-395: component prompt, one LLM call
ComponentRequest ==
    /\ AtComponent
    /\ ~ComponentEmpty(CurData, CurComponent)
    /\ SendRequest(CurName, CurComponent, _create_component_prompt(CurComponent, CurData))
    /\ pc' = "await_component"
    /\ UNCHANGED <<env, phase, sections, idx, report, summary, raised, outFiles>>
    /\ chunkUnchanged /\ regUnchanged /\ metricsUnchanged

Tag(items, c) == [i \in 1..Len(items) |-> [items[i] EXCEPT !.component = c]]

\* the call raised, or a key test on a JSON scalar raised TypeError
ComponentFails(r) == r = "raise" \/ InRaises(extract_json_from_response(r))

\* lines 395-440: collect the tagged issues, optimizations and the summary;
\* an exception of the try body becomes an "Error analyzing ..." summary
\* line; the log is written in the `finally`, and an exception of that write
\* leaves analyze_with_chunking (caught at analyzer.py lines 187-193)
ComponentResponse(r) ==
    /\ phase = "AnalyzingSections" /\ pc = "await_component"
    /\ ReceiveResponse(CurName, CurComponent, r)
    /\ errorLog' = errorLog \o ExtractorLog(CurName, CurComponent, r)
                            \o HandlerLog("analyze_with_chunking", CurName, CurComponent,
                                          ComponentFails(r))
                            \o WriteFailureLog(CurName, CurComponent)
    /\ IF WriteFails
       THEN /\ FinishSection(AnalysisFailed)
            /\ UNCHANGED <<compIdx, allIssues, allOpts, compSummaries, outFiles>>
       ELSE /\ LET ca == extract_json_from_response(r)
               IN  IF ComponentFails(r)
                   THEN /\ compSummaries' =
                              Append(compSummaries, Line("Error analyzing", CurComponent))
                        /\ UNCHANGED <<allIssues, allOpts>>
                   ELSE /\ allIssues' = IF In("issues", ca)
                                         THEN allIssues \o Tag(ca.issues, CurComponent)
                                         ELSE allIssues
                        /\ allOpts' = IF In("optimizations", ca)
                                       THEN allOpts \o Tag(ca.optimizations, CurComponent)
                                       ELSE allOpts
                        /\ compSummaries' = IF In("summary", ca)
                                             THEN Append(compSummaries,
                                                         Line(upper(CurComponent), ca.summary[1].body))
                                             ELSE compSummaries
            /\ compIdx' = compIdx + 1
            /\ pc' = "components"
            /\ outFiles' = SaveLog(outFiles, CurName, CurComponent)
            /\ UNCHANGED <<idx, report>>
    /\ UNCHANGED <<env, phase, sections, summary, raised, buckets>>
    /\ regUnchanged /\ metricsUnchanged

\* NetworkAnalyzer.extract_key_metrics calls .get on every element of the
\* component lists: AttributeError when an element is not a mapping
MetricsRaises(payload) == payload.comps # <<>> /\ ~payload.elemsOk

ComponentsDone ==
    /\ phase = "AnalyzingSections" /\ pc = "components"
    /\ compIdx > Len(Components)

\* lines 442-450: metrics for the summary prompt raise; the exception leaves
\* analyze_with_chunking and is caught at analyzer.py lines 187-193
ChunkMetricsFails ==
    /\ ComponentsDone
    /\ compSummaries # <<>>
    /\ MetricsRaises(CurData)
    /\ FinishSection(AnalysisFailed)
    /\ UNCHANGED <<env, phase, sections, summary, raised, events, errorLog, inflight, outFiles>>
    /\ chunkUnchanged /\ regUnchanged /\ metricsUnchanged

\* the keys of the SENSITIVE_PORTS table that occur in the modelled addresses
SENSITIVE_PORTS == {"22", "443", "3389"}

\* lines 215-227: a connection whose RemoteAddress has a colon is reported
\* when the second of its colon-separated tokens is a key of the table
sensitive_ports_active(connections) ==
    LET hits == SelectSeq(connections,
                          LAMBDA conn : /\ Len(conn.remote) > 1
                                        /\ conn.remote[2] \in SENSITIVE_PORTS)
    IN  [k \in 1..Len(hits) |-> [port |-> hits[k].remote[2], remote |-> hits[k].remote]]

\* lines 139-248; of the mapping only connections.sensitive_ports is modelled
Network_extract_key_metrics(data) ==
    IF data.shape # "dict" THEN [error |-> "Invalid network data format"]
    ELSE [sensitive_ports |-> sensitive_ports_active(data.items)]

\* lines 442-463: the metrics and the cross-component summary call
ChunkSummaryRequest ==
    /\ ComponentsDone
    /\ compSummaries # <<>>
    /\ ~MetricsRaises(CurData)
    /\ metrics' = Network_extract_key_metrics(CurData)
    /\ SendRequest(CurName, "chunk_summary", _create_overall_summary_prompt(compSummaries))
    /\ pc' = "await_chunk_summary"
    /\ UNCHANGED <<env, phase, sections, idx, report, summary, raised, outFiles>>
    /\ chunkUnchanged /\ regUnchanged

chunk_summary_text_lost(r, summaries) ==
    LET sa == extract_json_from_response(r)
    IN  IF r # "raise" /\ ~InRaises(sa) /\ In("summary", sa)
        THEN sa.summary
        ELSE NoAnalysisText

\* lines 470-489: the LLM's summary, or the joined component summaries
chunk_summary_text(r, summaries) ==
    LET sa == extract_json_from_response(r)
    IN  IF r # "raise" /\ ~InRaises(sa) /\ In("summary", sa)
        THEN sa.summary
        ELSE summaries

\* lines 463-500
ChunkSummaryResponse(r) ==
    /\ phase = "AnalyzingSections" /\ pc = "await_chunk_summary"
    /\ ReceiveResponse(CurName, "chunk_summary", r)
    /\ errorLog' = errorLog \o ExtractorLog(CurName, "chunk_summary", r)
                            \o HandlerLog("analyze_with_chunking", CurName, "chunk_summary",
                                          ComponentFails(r))
                            \o WriteFailureLog(CurName, "chunk_summary")
    /\ IF WriteFails
       THEN /\ FinishSection(AnalysisFailed)
            /\ outFiles' = outFiles
       ELSE /\ FinishSection(Aggregated(allIssues, allOpts,
                                        chunk_summary_text(r, compSummaries)))
            /\ outFiles' = _save_section_analysis(
                               SaveLog(outFiles, CurName, "summary"), CurName,
                               Aggregated(allIssues, allOpts,
                                          chunk_summary_text(r, compSummaries)))
    /\ UNCHANGED <<env, phase, sections, summary, raised>>
    /\ chunkUnchanged /\ regUnchanged /\ metricsUnchanged

\* lines 497-500: no component left a summary line
ChunkNoSummary ==
    /\ ComponentsDone
    /\ compSummaries = <<>>
    /\ FinishSection(Aggregated(allIssues, allOpts, NoAnalysisText))
    /\ outFiles' = _save_section_analysis(outFiles, CurName,
                                          Aggregated(allIssues, allOpts, NoAnalysisText))
    /\ UNCHANGED <<env, phase, sections, summary, raised, events, errorLog, inflight>>
    /\ chunkUnchanged /\ regUnchanged /\ metricsUnchanged

----
\* InstalledProgramsAnalyzer: the programs, their categories and buckets

\* the keyword table, restricted to the keywords that occur in ProgramNames
SOFTWARE_CATEGORIES ==
    <<[name |-> "security", keywords |-> {"security", "norton"}],
      [name |-> "development", keywords |-> {"python"}],
      [name |-> "utilities", keywords |-> {"tool", "cleaner"}],
      [name |-> "bloatware", keywords |-> {"toolbar", "coupon", "cleaner"}]>>

\* program.get("Name", "").lower()
ProgramNames ==
    {"norton security", "python 3.11", "ask toolbar", "ccleaner", "coupon printer", "notepad"}

\* `keyword in program_name`: the keywords of the table that are substrings
\* of the name
KeywordsIn(program_name) ==
    CASE program_name = "norton security" -> {"security", "norton"}
      [] program_name = "python 3.11" -> {"python"}
      [] program_name = "ask toolbar" -> {"tool", "toolbar"}
      [] program_name = "ccleaner" -> {"cleaner"}
      [] program_name = "coupon printer" -> {"coupon"}
      [] OTHER -> {}

\* an InstallDate string: its format, whether strptime accepts it, and the
\* number of days between the date and today
InstallDate(form, valid, daysAgo) == [form |-> form, valid |-> valid, daysAgo |-> daysAgo]

NoDate == InstallDate("absent", FALSE, 0)

InstallDates ==
    {NoDate,
     InstallDate("YYYYMMDD", TRUE, 5), InstallDate("YYYYMMDD", TRUE, 30),
     InstallDate("YYYYMMDD", TRUE, 31), InstallDate("YYYYMMDD", FALSE, 0),
     InstallDate("YYYY-MM-DD", TRUE, 5), InstallDate("other", FALSE, 0)}

Program(name, date) == [name |-> name, date |-> date]

Programs == {Program(n, d) : n \in ProgramNames, d \in InstallDates}

RecentDays == 30

\* lines 63-80: the categories whose keywords the name contains, in table order
_categorize_program(program) ==
    LET hits == SelectSeq(SOFTWARE_CATEGORIES,
                          LAMBDA c : c.keywords \cap KeywordsIn(program.name) # {})
    IN  [k \in 1..Len(hits) |-> hits[k].name]

\* lines 301-310: an 8-digit date that parses and is at most 30 days old
is_recent(program) ==
    /\ program.date.form = "YYYYMMDD"
    /\ program.date.valid
    /\ program.date.daysAgo <= RecentDays

\* lines 287-294
EmptyBuckets ==
    <<[name |-> "security", val |-> <<>>], [name |-> "bloatware", val |-> <<>>],
      [name |-> "development", val |-> <<>>], [name |-> "utilities", val |-> <<>>],
      [name |-> "recent", val |-> <<>>], [name |-> "other", val |-> <<>>]>>

\* lines 300-320: the bucket one program is appended to
bucket_of(program) ==
    IF is_recent(program) THEN "recent"
    ELSE IF _categorize_program(program) # <<>> THEN _categorize_program(program)[1]
    ELSE "other"

\* lines 297-320: the loop over section_data
RECURSIVE categorize(_, _)
categorize(programs, acc) ==
    IF programs = <<>> THEN acc
    ELSE LET program == Head(programs)
             bucket == bucket_of(program)
         IN  categorize(Tail(programs),
                        DictSet(acc, bucket, Append(DictGet(acc, bucket, <<>>), program)))

\* program.get or re.match raises when an element is not a mapping or its
\* InstallDate is not a string (lines 302-303); caught at line 321
CategorizeRaises(payload) == ~payload.elemsOk

ProgramList(programs) ==
    [Payload("list", FALSE, "-", TRUE, <<>>) EXCEPT !.items = programs]

sample_size == 15

\* programs[:sample_size]
Sample(programs) ==
    SubSeq(programs, 1, IF Len(programs) < sample_size THEN Len(programs) ELSE sample_size)

----
\* InstalledProgramsAnalyzer.analyze_with_chunking

InvalidProgramsFormat ==
    Result("dict", {"error"}, "Invalid installed programs data format", <<>>, <<>>, <<>>)

NoProgramsAnalysisText ==
    <<Line("-", "No analysis could be generated for any program categories.")>>

\* lines 279-280: the payload is not a list
ProgramsInvalid ==
    /\ AtSection
    /\ ~HasLoadError(CurData)
    /\ IsPrograms(CurName)
    /\ CurData.shape # "list"
    /\ FinishSection(InvalidProgramsFormat)
    /\ outFiles' = _save_section_analysis(outFiles, CurName, InvalidProgramsFormat)
    /\ UNCHANGED <<env, phase, sections, summary, raised, events, errorLog, inflight>>
    /\ chunkUnchanged /\ regUnchanged /\ metricsUnchanged

\* lines 118-139: a date of 8 digits or of the form YYYY-MM-DD that strptime
\* accepts and that is at most 30 days old; any other date is skipped
counted_recent(program) ==
    /\ program.date.form \in {"YYYYMMDD", "YYYY-MM-DD"}
    /\ program.date.valid
    /\ program.date.daysAgo <= RecentDays

\* lines 92-93 and 107-169: recent_installations_count; the loop over a list
\* whose elements are not mappings ends in the `except` at its first element
InstalledPrograms_extract_key_metrics(data) ==
    IF data.shape # "list" THEN [total_programs |-> 0]
    ELSE [total_programs |-> Len(data.items),
          recent_installations_count |->
              IF data.elemsOk THEN Len(SelectSeq(data.items, counted_recent)) ELSE 0]

\* lines 321-324: categorization raised; analyze_standard is used instead
\* (its prompt is built and its one LLM call is made)
ProgramsFallback ==
    /\ AtSection
    /\ ~HasLoadError(CurData)
    /\ IsPrograms(CurName)
    /\ CurData.shape = "list"
    /\ CategorizeRaises(CurData)
    /\ metrics' = InstalledPrograms_extract_key_metrics(CurData)
    /\ SendRequest(CurName, "standard",
                   build_prompt_wrapper(get_analyzer(registry, CurName), CurData))
    /\ pc' = "await_standard"
    /\ UNCHANGED <<env, phase, sections, idx, report, summary, raised, outFiles>>
    /\ chunkUnchanged /\ regUnchanged

\* lines 283-330: metrics, the buckets and the accumulators
ProgramsBegin ==
    /\ AtSection
    /\ ~HasLoadError(CurData)
    /\ IsPrograms(CurName)
    /\ CurData.shape = "list"
    /\ ~CategorizeRaises(CurData)
    /\ metrics' = InstalledPrograms_extract_key_metrics(CurData)
    /\ buckets' = categorize(CurData.items, EmptyBuckets)
    /\ compIdx' = 1
    /\ allIssues' = <<>>
    /\ allOpts' = <<>>
    /\ compSummaries' = <<>>
    /\ pc' = "categories"
    /\ UNCHANGED <<env, phase, sections, idx, report, summary, raised, events, errorLog, inflight,
                   outFiles>>
    /\ regUnchanged

AtCategory ==
    /\ phase = "AnalyzingSections" /\ pc = "categories"
    /\ compIdx <= Len(buckets)

CurCategory_first == buckets[1].name

\* line 333: `for category, programs in categorized_programs.items()`
CurCategory == buckets[compIdx].name

CategoryEmpty_never(programs) == FALSE

\* line 335: `if not programs`
CategoryEmpty(programs) == programs = <<>>

\* lines 335-337: an empty category is skipped
CategorySkip ==
    /\ AtCategory
    /\ CategoryEmpty(buckets[compIdx].val)
    /\ compIdx' = compIdx + 1
    /\ UNCHANGED <<env, phase, sections, idx, pc, report, summary, raised, events, errorLog,
                   inflight, allIssues, allOpts, compSummaries, buckets, outFiles>>
    /\ regUnchanged /\ metricsUnchanged

\* lines 339-359: sample, category prompt, one LLM call
CategoryRequest ==
    /\ AtCategory
    /\ ~CategoryEmpty(buckets[compIdx].val)
    /\ SendRequest(CurName, CurCategory,
                   _create_category_prompt(CurCategory, Sample(buckets[compIdx].val)))
    /\ pc' = "await_category"
    /\ UNCHANGED <<env, phase, sections, idx, report, summary, raised, outFiles>>
    /\ chunkUnchanged /\ regUnchanged /\ metricsUnchanged

\* lines 368-379: issue["category"] = category
TagCategory(items, c) == [i \in 1..Len(items) |-> [items[i] EXCEPT !.category = c]]

\* lines 359-405: collect the tagged issues, optimizations and the summary;
\* an exception of the try body becomes an "Error analyzing ..." summary
\* line; the log is written in the `finally`, and an exception of that write
\* leaves analyze_with_chunking (caught at analyzer.py lines 187-193)
CategoryResponse(r) ==
    /\ phase = "AnalyzingSections" /\ pc = "await_category"
    /\ ReceiveResponse(CurName, CurCategory, r)
    /\ errorLog' = errorLog \o ExtractorLog(CurName, CurCategory, r)
                            \o HandlerLog("analyze_with_chunking", CurName, CurCategory,
                                          ComponentFails(r))
                            \o WriteFailureLog(CurName, CurCategory)
    /\ IF WriteFails
       THEN /\ FinishSection(AnalysisFailed)
            /\ UNCHANGED <<compIdx, allIssues, allOpts, compSummaries, outFiles>>
       ELSE /\ LET ca == extract_json_from_response(r)
               IN  IF ComponentFails(r)
                   THEN /\ compSummaries' =
                              Append(compSummaries, Line("Error analyzing", CurCategory))
                        /\ UNCHANGED <<allIssues, allOpts>>
                   ELSE /\ allIssues' = IF In("issues", ca)
                                         THEN allIssues \o TagCategory(ca.issues, CurCategory)
                                         ELSE allIssues
                        /\ allOpts' = IF In("optimizations", ca)
                                       THEN allOpts \o TagCategory(ca.optimizations, CurCategory)
                                       ELSE allOpts
                        /\ compSummaries' = IF In("summary", ca)
                                             THEN Append(compSummaries,
                                                         Line(upper(CurCategory), ca.summary[1].body))
                                             ELSE compSummaries
            /\ compIdx' = compIdx + 1
            /\ pc' = "categories"
            /\ outFiles' = SaveLog(outFiles, CurName, CurCategory)
            /\ UNCHANGED <<idx, report>>
    /\ UNCHANGED <<env, phase, sections, summary, raised, buckets>>
    /\ regUnchanged /\ metricsUnchanged

CategoriesDone ==
    /\ phase = "AnalyzingSections" /\ pc = "categories"
    /\ compIdx > Len(buckets)

\* lines 413-425: the cross-category summary call
ProgramsSummaryRequest ==
    /\ CategoriesDone
    /\ compSummaries # <<>>
    /\ SendRequest(CurName, "chunk_summary", _create_programs_summary_prompt(compSummaries))
    /\ pc' = "await_programs_summary"
    /\ UNCHANGED <<env, phase, sections, idx, report, summary, raised, outFiles>>
    /\ chunkUnchanged /\ regUnchanged /\ metricsUnchanged

\* lines 425-465: the LLM's summary, or the joined category summaries
ProgramsSummaryResponse(r) ==
    /\ phase = "AnalyzingSections" /\ pc = "await_programs_summary"
    /\ ReceiveResponse(CurName, "chunk_summary", r)
    /\ errorLog' = errorLog \o ExtractorLog(CurName, "chunk_summary", r)
                            \o HandlerLog("analyze_with_chunking", CurName, "chunk_summary",
                                          ComponentFails(r))
                            \o WriteFailureLog(CurName, "chunk_summary")
    /\ IF WriteFails
       THEN /\ FinishSection(AnalysisFailed)
            /\ outFiles' = outFiles
       ELSE /\ FinishSection(Aggregated(allIssues, allOpts,
                                        chunk_summary_text(r, compSummaries)))
            /\ outFiles' = _save_section_analysis(
                               SaveLog(outFiles, CurName, "summary"), CurName,
                               Aggregated(allIssues, allOpts,
                                          chunk_summary_text(r, compSummaries)))
    /\ UNCHANGED <<env, phase, sections, summary, raised>>
    /\ chunkUnchanged /\ regUnchanged /\ metricsUnchanged

\* lines 462-465: no category left a summary line
ProgramsNoSummary ==
    /\ CategoriesDone
    /\ compSummaries = <<>>
    /\ FinishSection(Aggregated(allIssues, allOpts, NoProgramsAnalysisText))
    /\ outFiles' = _save_section_analysis(outFiles, CurName,
                                          Aggregated(allIssues, allOpts, NoProgramsAnalysisText))
    /\ UNCHANGED <<env, phase, sections, summary, raised, events, errorLog, inflight>>
    /\ chunkUnchanged /\ regUnchanged /\ metricsUnchanged

----
\* The overall summary and the output (analyzer.py lines 195-277)

SectionsDone_early ==
    /\ phase = "AnalyzingSections" /\ pc = "section"
    /\ idx >= Len(sections)

SectionsDone ==
    /\ phase = "AnalyzingSections" /\ pc = "section"
    /\ idx > Len(sections)

\* PromptEngine.create_summary_prompt tests `"error" in section_analysis` for
\* every section: TypeError when a section's result is a JSON scalar
SummaryPromptRaises(rep) == \E i \in 1..Len(rep) : InRaises(rep[i].val)

\* lines 197-198 and 242-248: building the summary prompt raises
SummaryPromptFails ==
    /\ SectionsDone
    /\ SummaryPromptRaises(report)
    /\ phase' = "Summarizing"
    /\ summary' = SummaryFailed
    /\ pc' = "output"
    /\ UNCHANGED <<env, sections, idx, report, raised, events, errorLog, inflight, outFiles>>
    /\ chunkUnchanged /\ regUnchanged /\ metricsUnchanged

\* lines 197-211: the summary prompt is built and sent
SummaryRequest ==
    /\ SectionsDone
    /\ ~SummaryPromptRaises(report)
    /\ phase' = "Summarizing"
    /\ SendRequest("summary", "overall", create_summary_prompt(report))
    /\ pc' = "await_summary"
    /\ UNCHANGED <<env, sections, idx, report, summary, raised, outFiles>>
    /\ chunkUnchanged /\ regUnchanged /\ metricsUnchanged

\* lines 211-248: the log is written in the `finally`; an exception of the
\* call or of the log write gives the error record
SummaryResponse(r) ==
    /\ phase = "Summarizing" /\ pc = "await_summary"
    /\ ReceiveResponse("summary", "overall", r)
    /\ IF WriteFails
       THEN /\ summary' = SummaryFailed
            /\ outFiles' = outFiles
            /\ errorLog' = errorLog \o WriteFailureLog("summary", "overall")
       ELSE IF r = "raise"
       THEN /\ summary' = SummaryFailed
            /\ outFiles' = SaveLog(outFiles, "summary", "-")
            /\ errorLog' = errorLog \o HandlerLog("analyze_snapshot", "summary", "overall", TRUE)
       ELSE /\ summary' = extract_json_from_response(r)
            /\ outFiles' = _save_section_analysis(SaveLog(outFiles, "summary", "-"), "summary",
                                                  extract_json_from_response(r))
            /\ errorLog' = errorLog \o ExtractorLog("summary", "overall", r)
    /\ pc' = "output"
    /\ UNCHANGED <<env, phase, sections, idx, report, raised>>
    /\ chunkUnchanged /\ regUnchanged /\ metricsUnchanged

\* lines 250-277: write the report (a write failure is logged) or print the
\* summary; `"error" in summary` at line 266 is outside any try
OutputRaises(e, s) == ~e.outputFile /\ InRaises(s)

Output ==
    /\ phase = "Summarizing" /\ pc = "output"
    /\ IF OutputRaises(env, summary)
       THEN /\ raised' = "TypeError"
            /\ phase' = "Failed"
            /\ pc' = "raised"
       ELSE /\ raised' = raised
            /\ phase' = "Done"
            /\ pc' = "returned"
    /\ UNCHANGED <<env, sections, idx, report, summary, events, errorLog, inflight, outFiles>>
    /\ chunkUnchanged /\ regUnchanged /\ metricsUnchanged

Next ==
    \/ LoadSnapshot
    \/ SkipLoadError
    \/ GenericRequest
    \/ \E r \in Responses : GenericResponse(r)
    \/ StandardPromptFails
    \/ StandardRequest
    \/ \E r \in Responses : StandardResponse(r)
    \/ ChunkedInvalid
    \/ ChunkedBegin
    \/ ComponentSkip
    \/ ComponentRequest
    \/ \E r \in Responses : ComponentResponse(r)
    \/ ChunkMetricsFails
    \/ ChunkSummaryRequest
    \/ \E r \in Responses : ChunkSummaryResponse(r)
    \/ ChunkNoSummary
    \/ SummaryPromptFails
    \/ SummaryRequest
    \/ \E r \in Responses : SummaryResponse(r)
    \/ Output

Spec == Init /\ [][Next]_vars

----
\* Runs over snapshots that also hold the InstalledPrograms section

FullNames == {"Foo", "Path", "Network", "InstalledPrograms"}

\* three non-empty categories: security, bloatware and recent
ThreeCategories ==
    <<Program("norton security", NoDate),
      Program("coupon printer", InstallDate("YYYYMMDD", TRUE, 31)),
      Program("coupon printer", InstallDate("YYYYMMDD", TRUE, 5))>>

\* one non-empty category: utilities
OneCategory == <<Program("ccleaner", InstallDate("YYYY-MM-DD", TRUE, 5))>>

FullFileChoices(name) ==
    CASE name = "Path" ->
            {Wrapped(ListOfMappings), Wrapped(ListOfScalars)}
      [] name = "Network" ->
            {Wrapped(ListOfMappings),
             Wrapped(NetworkDict(<<>>, TRUE)),
             Wrapped(NetworkDict(<<"adapters", "connections">>, TRUE)),
             Wrapped(NetworkDict(<<"dns">>, FALSE))}
      [] name = "InstalledPrograms" ->
            {Wrapped(PlainDict), Wrapped(ListOfScalars),
             Wrapped(ProgramList(OneCategory)), Wrapped(ProgramList(ThreeCategories))}
      [] OTHER ->
            {Wrapped(PlainDict), Unwrapped(DictWithErrorKey)}

RECURSIVE FullOrders(_)
FullOrders(n) ==
    IF n = 0 THEN {<<>>}
    ELSE LET shorter == FullOrders(n - 1)
         IN  shorter \cup {Append(o, x) : o \in shorter, x \in FullNames}

FullIndexChoices(n) == {o \in FullOrders(n) : o # <<>> /\ IsDistinct(o)}

FullFilesFor(index) ==
    {f \in [FullNames -> UNION {FullFileChoices(n) : n \in FullNames} \cup {MissingFile}] :
        \A n \in FullNames :
            IF n \in SeqRange(index) THEN f[n] \in FullFileChoices(n) ELSE f[n] = MissingFile}

\* the snapshot directory is complete and index.json lists up to n sections;
\* the call names an output file and no output directory
FullEnvsWith(ix) ==
    {[dirOk |-> TRUE, metaOk |-> TRUE, indexFile |-> "ok", index |-> ix, files |-> f,
      focus |-> <<>>, outputFile |-> TRUE, outputDir |-> "none"] : f \in FullFilesFor(ix)}

FullEnvs(n) == UNION {FullEnvsWith(ix) : ix \in FullIndexChoices(n)}

InitFull ==
    /\ registry = RegisterAll(<<>>, ImportOrder)
    /\ regLog = ImportOrder
    /\ lookupResult = NoLookup
    /\ env \in FullEnvs(MaxFullSections)
    /\ first = <<>>
    /\ RunInit

NextFull ==
    \/ Next
    \/ ProgramsInvalid
    \/ ProgramsFallback
    \/ ProgramsBegin
    \/ CategorySkip
    \/ CategoryRequest
    \/ \E r \in Responses : CategoryResponse(r)
    \/ ProgramsSummaryRequest
    \/ \E r \in Responses : ProgramsSummaryResponse(r)
    \/ ProgramsNoSummary

SpecFull == InitFull /\ [][NextFull]_vars

----
\* The same snapshot analyzed twice: first without an output directory, then
\* with one, the LLM answering the second run as it answered the first

OutputDirs == {"ok", "blocked", "unwritable"}

\* what a finished run leaves behind
RunOutcome == [report |-> report, summary |-> summary, raised |-> raised, events |-> events]

InitTwin ==
    /\ registry = RegisterAll(<<>>, ImportOrder)
    /\ regLog = ImportOrder
    /\ lookupResult = NoLookup
    /\ env \in FullEnvs(MaxTwinSections)
    /\ first = <<>>
    /\ RunInit

\* analyze_snapshot is called again on the same snapshot, with output_dir
Rerun(dir) ==
    /\ pc \in {"returned", "raised"}
    /\ first = <<>>
    /\ first' = <<RunOutcome>>
    /\ env' = [env EXCEPT !.outputDir = dir]
    /\ phase' = "Loading"
    /\ sections' = <<>>
    /\ idx' = 0
    /\ pc' = "load"
    /\ report' = <<>>
    /\ summary' = NoResult
    /\ raised' = "None"
    /\ events' = <<>>
    /\ errorLog' = <<>>
    /\ inflight' = 0
    /\ compIdx' = 0
    /\ allIssues' = <<>>
    /\ allOpts' = <<>>
    /\ compSummaries' = <<>>
    /\ buckets' = <<>>
    /\ outFiles' = <<>>
    /\ metrics' = NoMetrics
    /\ UNCHANGED <<registry, regLog, lookupResult>>

NextTwin ==
    \/ NextFull
    \/ \E dir \in OutputDirs : Rerun(dir)

SpecTwin == InitTwin /\ [][NextTwin]_vars

----
\* The bucketing of InstalledPrograms on its own: any list of programs

RECURSIVE ProgramLists(_)
ProgramLists(n) ==
    IF n = 0 THEN {<<>>}
    ELSE LET shorter == ProgramLists(n - 1)
         IN  shorter \cup {Append(l, program) : l \in shorter, program \in Programs}

\* InstalledPrograms.json holds a list of programs, or a list with an
\* element that is not a mapping
ProgramsEnvs ==
    {[dirOk |-> TRUE, metaOk |-> TRUE, indexFile |-> "ok", index |-> <<"InstalledPrograms">>,
      files |-> [n \in FullNames |-> IF n = "InstalledPrograms" THEN Wrapped(content)
                                     ELSE MissingFile],
      focus |-> <<>>, outputFile |-> TRUE, outputDir |-> "none"] :
        content \in {ProgramList(l) : l \in ProgramLists(MaxPrograms)} \cup {ListOfScalars}}

InitBucket ==
    /\ registry = RegisterAll(<<>>, ImportOrder)
    /\ regLog = ImportOrder
    /\ lookupResult = NoLookup
    /\ env \in ProgramsEnvs
    /\ first = <<>>
    /\ RunInit

\* the run up to the end of the categorization (line 330)
NextBucket ==
    \/ LoadSnapshot
    \/ ProgramsBegin
    \/ ProgramsFallback

SpecBucket == InitBucket /\ [][NextBucket]_vars

----
\* The summary step on its own: any report the section loop can leave

\* sections without an analyzer: their result is the JSON value of the reply
HarvestNames == {"Foo", "Bar", "Baz"}

\* JSON values an LLM reply can hold, and the error record of a failed call
HarvestResults ==
    {LLMObject,
     Result("dict", {"issues", "optimizations", "summary"}, "-",
            <<Issue("critical"), Issue("medium"), Issue("high")>>, <<>>,
            <<Line("-", "LLM summary")>>),
     Result("dict", {"issues"}, "-", <<Issue("low")>>, <<>>, <<>>),
     Result("dict", {"error", "issues"}, "LLM error", <<Issue("critical")>>, <<>>, <<>>),
     Result("dict", {"summary"}, "-", <<>>, <<>>, <<Line("-", "LLM summary")>>),
     Sentinel,
     AnalysisFailed,
     extract_json_from_response("array"),
     extract_json_from_response("scalar")}

RECURSIVE Reports(_)
Reports(n) ==
    IF n = 0 THEN {<<>>}
    ELSE LET shorter == Reports(n - 1)
         IN  shorter \cup {Append(rep, [name |-> name, val |-> result]) :
                               rep \in shorter, name \in HarvestNames, result \in HarvestResults}

HarvestEnv(names) ==
    [dirOk |-> TRUE, metaOk |-> TRUE, indexFile |-> "ok", index |-> names,
     files |-> [n \in HarvestNames |-> IF n \in SeqRange(names) THEN Wrapped(PlainDict)
                                       ELSE MissingFile],
     focus |-> <<>>, outputFile |-> TRUE, outputDir |-> "none"]

\* the state at the end of the section loop (analyzer.py line 195)
InitHarvest ==
    /\ registry = RegisterAll(<<>>, ImportOrder)
    /\ regLog = ImportOrder
    /\ lookupResult = NoLookup
    /\ first = <<>>
    /\ report \in {rep \in Reports(MaxHarvest) : IsDistinct(DictKeys(rep))}
    /\ env = HarvestEnv(DictKeys(report))
    /\ sections = [i \in 1..Len(report) |-> [name |-> report[i].name, val |-> PlainDict]]
    /\ phase = "AnalyzingSections"
    /\ idx = Len(report) + 1
    /\ pc = "section"
    /\ summary = NoResult
    /\ raised = "None"
    /\ events = <<>>
    /\ errorLog = <<>>
    /\ inflight = 0
    /\ compIdx = 0
    /\ allIssues = <<>>
    /\ allOpts = <<>>
    /\ compSummaries = <<>>
    /\ buckets = <<>>
    /\ outFiles = <<>>
    /\ metrics = NoMetrics

NextHarvest ==
    \/ SummaryPromptFails
    \/ SummaryRequest
    \/ \E r \in Responses : SummaryResponse(r)
    \/ Output

SpecHarvest == InitHarvest /\ [][NextHarvest]_vars

----
\* The generic path on its own: a section without an analyzer whose JSON
\* serialization is about as long as the cap of the generic prompt

JsonSizes == {2} \cup ((MAX_SECTION_JSON - MaxOver)..(MAX_SECTION_JSON + MaxOver))

GenericEnvs ==
    {[dirOk |-> TRUE, metaOk |-> TRUE, indexFile |-> "ok", index |-> <<name>>,
      files |-> [n \in HarvestNames |-> IF n = name THEN Wrapped(Sized(content, size))
                                        ELSE MissingFile],
      focus |-> <<>>, outputFile |-> TRUE, outputDir |-> "none"] :
        name \in HarvestNames, content \in {PlainDict, ListOfMappings, ListOfScalars},
        size \in JsonSizes}

InitGeneric ==
    /\ registry = RegisterAll(<<>>, ImportOrder)
    /\ regLog = ImportOrder
    /\ lookupResult = NoLookup
    /\ env \in GenericEnvs
    /\ first = <<>>
    /\ RunInit

NextGeneric ==
    \/ LoadSnapshot
    \/ GenericRequest
    \/ \E r \in Responses : GenericResponse(r)
    \/ SummaryPromptFails
    \/ SummaryRequest
    \/ \E r \in Responses : SummaryResponse(r)
    \/ Output

SpecGeneric == InitGeneric /\ [][NextGeneric]_vars

----
\* The chunked analyzers on sections about as long as their sample limits,
\* and on connections to several kinds of remote address

\* "10.0.0.1:443", "10.0.0.5:50000", "10.0.0.9", "[fe80::1]:3389" and
\* "[2001:443::1]:50000", as remote.split(":") yields them
Addresses ==
    {<<"10.0.0.1", "443">>, <<"10.0.0.5", "50000">>, <<"10.0.0.9">>,
     <<"[fe80", "", "1]", "3389">>, <<"[2001", "443", "", "1]", "50000">>}

ShortConnections ==
    UNION {[1..n -> {Connection(a) : a \in Addresses}] : n \in 1..MaxConnections}

\* n connections to distinct ports of one host, none of them sensitive
LongConnections(n) == [k \in 1..n |-> Connection(<<"10.0.0.5", ToString(50000 + k)>>)]

\* one development tool and n programs of no category, none of them recent,
\* no two neighbours alike
LongPrograms(n) ==
    <<Program("python 3.11", NoDate)>>
       \o [k \in 1..n |->
              Program("notepad",
                      CASE k % 3 = 0 -> NoDate
                        [] k % 3 = 1 -> InstallDate("YYYYMMDD", TRUE, 31)
                        [] OTHER -> InstallDate("YYYYMMDD", FALSE, 0))]

SampleSections ==
    {[name |-> "Network", val |-> NetworkWith(<<"connections">>, c)] :
        c \in ShortConnections
               \cup {LongConnections(n) :
                        n \in component_sample_limit..(component_sample_limit + MaxOver)}}
    \cup {[name |-> "InstalledPrograms", val |-> ProgramList(LongPrograms(n))] :
             n \in (sample_size - 1)..(sample_size + MaxOver)}

SampleEnvs ==
    {[dirOk |-> TRUE, metaOk |-> TRUE, indexFile |-> "ok", index |-> <<sec.name>>,
      files |-> [n \in FullNames |-> IF n = sec.name THEN Wrapped(sec.val) ELSE MissingFile],
      focus |-> <<>>, outputFile |-> TRUE, outputDir |-> "none"] : sec \in SampleSections}

InitSample ==
    /\ registry = RegisterAll(<<>>, ImportOrder)
    /\ regLog = ImportOrder
    /\ lookupResult = NoLookup
    /\ env \in SampleEnvs
    /\ first = <<>>
    /\ RunInit

NextSample ==
    \/ LoadSnapshot
    \/ ChunkedBegin
    \/ ComponentSkip
    \/ ComponentRequest
    \/ \E r \in Responses : ComponentResponse(r)
    \/ ChunkSummaryRequest
    \/ \E r \in Responses : ChunkSummaryResponse(r)
    \/ ChunkNoSummary
    \/ ProgramsBegin
    \/ CategorySkip
    \/ CategoryRequest
    \/ \E r \in Responses : CategoryResponse(r)
    \/ ProgramsSummaryRequest
    \/ \E r \in Responses : ProgramsSummaryResponse(r)
    \/ ProgramsNoSummary
    \/ SummaryRequest
    \/ \E r \in Responses : SummaryResponse(r)
    \/ Output

SpecSample == InitSample /\ [][NextSample]_vars

----
\* The DiskSpace analyzer on every percentage of free space

\* a system or a data drive with little or much free space in GB, and a
\* system drive at 2% followed by a data drive
DriveLists ==
    {<<Drive(name, percent, gb)>> : name \in {"C", "D"}, percent \in 0..100, gb \in {10, 50}}
    \cup {<<Drive("C", 2, 50), Drive("D", percent, 50)>> : percent \in {3, 5, 6, 10, 15, 60}}

DiskEnvs ==
    {[dirOk |-> TRUE, metaOk |-> TRUE, indexFile |-> "ok", index |-> <<"DiskSpace">>,
      files |-> [n \in {"DiskSpace"} |-> Wrapped(DriveList(drives))],
      focus |-> <<>>, outputFile |-> TRUE, outputDir |-> "none"] : drives \in DriveLists}

InitDisk ==
    /\ registry = RegisterAll(<<>>, ImportOrder)
    /\ regLog = ImportOrder
    /\ lookupResult = NoLookup
    /\ env \in DiskEnvs
    /\ first = <<>>
    /\ RunInit

NextDisk ==
    \/ LoadSnapshot
    \/ StandardRequest
    \/ \E r \in Responses : StandardResponse(r)
    \/ SummaryPromptFails
    \/ SummaryRequest
    \/ \E r \in Responses : SummaryResponse(r)
    \/ Output

SpecDisk == InitDisk /\ [][NextDisk]_vars

----
\* The registry on its own: any sequence of register() and get_analyzer()

LookupNames == {section_name(c) : c \in AnalyzerClasses} \cup {"NoSuchSection"}

IdleEnv ==
    [dirOk |-> FALSE, metaOk |-> TRUE, indexFile |-> "ok", index |-> <<>>,
     files |-> [n \in SectionNames |-> MissingFile], focus |-> <<>>, outputFile |-> FALSE,
     outputDir |-> "none"]

\* the class attribute `_registry = {}` before any analyzer module is imported
InitRegistry ==
    /\ registry = <<>>
    /\ regLog = <<>>
    /\ lookupResult = NoLookup
    /\ env = IdleEnv
    /\ first = <<>>
    /\ RunInit

\* SectionAnalyzerRegistry.register
Register(cls) ==
    /\ Len(regLog) < MaxRegs
    /\ registry' = register(registry, cls)
    /\ regLog' = Append(regLog, cls)
    /\ UNCHANGED lookupResult
    /\ UNCHANGED runVars

\* SectionAnalyzerRegistry.get_analyzer
Lookup(name) ==
    /\ lookupResult' = [name |-> name, result |-> get_analyzer(registry, name),
                        at |-> Len(regLog)]
    /\ UNCHANGED <<registry, regLog>>
    /\ UNCHANGED runVars

NextRegistry ==
    \/ \E cls \in AnalyzerClasses : Register(cls)
    \/ \E name \in LookupNames : Lookup(name)

SpecRegistry == InitRegistry /\ [][NextRegistry]_vars

----
\* Properties

EventsOf(name) == SelectSeq(events, LAMBDA ev : ev.section = name)
RequestsOf(name) == SelectSeq(events, LAMBDA ev : ev.section = name /\ ev.kind = "request")
ResponsesOf(name) == SelectSeq(events, LAMBDA ev : ev.section = name /\ ev.kind = "response")

SnapshotLoaded == sections # <<>>
RunEnded == phase \in {"Done", "Failed"}

\* C1 (total coverage): once the section loop of a loaded snapshot has ended,
\* whatever the LLM calls did, the report's `sections` mapping has exactly the
\* snapshot's section names as keys, one result per section.
C1_TotalCoverage ==
    (SnapshotLoaded /\ phase \in {"Summarizing", "Done", "Failed"}) =>
        /\ DictKeys(report) = DictKeys(sections)
        /\ \A i \in 1..Len(report) : report[i].val # NoResult

C1_Witness ==
    /\ phase = "Done"
    /\ Len(sections) = MaxSections
    /\ \E i, j \in 1..Len(report) :
          /\ "traceback" \in report[i].val.keys
          /\ report[j].val = LLMObject
    /\ \E k \in 1..Len(events) : events[k].outcome = "garbage"

\* C5 (load-error pass-through): a section whose loaded payload has an
\* `error` key gets that error copied through as its report entry, and no
\* LLM call of any kind is ever issued for it.
C5_LoadErrorPassThrough ==
    \A i \in 1..Len(sections) :
        (sections[i].val.shape = "dict" /\ sections[i].val.hasError) =>
            /\ EventsOf(sections[i].name) = <<>>
            /\ i < idx =>
                  /\ DictHas(report, sections[i].name)
                  /\ DictGet(report, sections[i].name, NoResult)
                        = Result("dict", {"error"}, sections[i].val.errval, <<>>, <<>>, <<>>)

C5_Witness ==
    /\ phase = "Done"
    /\ \E i, j \in 1..Len(sections) :
          /\ sections[i].val.hasError
          /\ sections[i].val.errval = "File not found"
          /\ DictGet(report, sections[i].name, NoResult).error = "File not found"
          /\ RequestsOf(sections[j].name) # <<>>

RECURSIVE LastRegistered(_, _)
LastRegistered(log, name) ==
    IF log = <<>> THEN NoAnalyzer
    ELSE IF section_name(log[Len(log)]) = name THEN log[Len(log)]
    ELSE LastRegistered(SubSeq(log, 1, Len(log) - 1), name)

\* C9 (registry overwrite): after any sequence of register operations every
\* name resolves to the class most recently registered under it (a second
\* registration under a name replaces the first, without an error), a name's
\* entry is changed only by a registration under that name, and a lookup
\* returns what the registry resolves.
C9_RegistryOverwrite ==
    /\ \A name \in LookupNames :
          get_analyzer(registry, name) = LastRegistered(regLog, name)
    /\ lookupResult # NoLookup =>
          lookupResult.result =
              LastRegistered(SubSeq(regLog, 1, lookupResult.at), lookupResult.name)

C9_Witness ==
    /\ Len(regLog) = 3
    /\ regLog[1] = "NetworkAnalyzer"
    /\ regLog[2] = "PathAnalyzer"
    /\ regLog[3] = "network.NetworkAnalyzer"
    /\ lookupResult = [name |-> "Network", result |-> "network.NetworkAnalyzer", at |-> 3]
    /\ get_analyzer(registry, "Path") = "PathAnalyzer"

PhaseRank(p) ==
    CASE p = "Loading" -> 0
      [] p = "AnalyzingSections" -> 1
      [] p = "Summarizing" -> 2
      [] p = "Done" -> 3
      [] p = "Failed" -> 4

\* position of an LLM event's unit of work in the run: the index of its
\* section in the snapshot's key order, the summary after all sections
EventRank(ev) ==
    IF ev.section = "summary" THEN Len(sections) + 1
    ELSE DictIndex(sections, ev.section, 1)

C6_State ==
    \* at most one request in flight; requests and responses alternate
    /\ inflight \in {0, 1}
    /\ inflight = Len(events) % 2
    /\ \A k \in 1..Len(events) :
          /\ events[k].kind = (IF k % 2 = 1 THEN "request" ELSE "response")
          /\ (k % 2 = 0) => /\ events[k].section = events[k - 1].section
                            /\ events[k].unit = events[k - 1].unit
    \* calls are made section by section, in key order, the summary last
    /\ \A k \in 1..Len(events) : EventRank(events[k]) >= 1
    /\ \A k \in 2..Len(events) : EventRank(events[k - 1]) <= EventRank(events[k])
    /\ phase = "AnalyzingSections" =>
          \A k \in 1..Len(events) : EventRank(events[k]) <= idx
    \* results are stored once per section, in key order
    /\ Len(report) <= Len(sections)
    /\ DictKeys(report) = SubSeq(DictKeys(sections), 1, Len(report))
    /\ phase = "AnalyzingSections" => Len(report) = idx - 1
    \* the summary call comes after the last section has its result, once
    /\ RequestsOf("summary") # <<>> =>
          /\ Len(report) = Len(sections)
          /\ Len(RequestsOf("summary")) = 1
          /\ phase \in {"Summarizing", "Done", "Failed"}
    /\ phase \in {"Summarizing", "Done"} => Len(report) = Len(sections)

C6_Step ==
    /\ PhaseRank(phase') >= PhaseRank(phase)
    /\ PhaseRank(phase') <= PhaseRank(phase) + 1 \/ phase' = "Failed"
    /\ phase' = "Failed" => phase \in {"Loading", "Summarizing", "Failed"}
    /\ idx' \in {idx, idx + 1}
    /\ Len(report') \in {Len(report), Len(report) + 1}

\* C6 (run ordering): the run goes Loading, AnalyzingSections, Summarizing,
\* Done and never back; each section is visited once, in the snapshot's key
\* order; all LLM calls of one section complete before a call of the next
\* starts; the overall-summary call comes only after the last section has a
\* result; at most one LLM request is in flight.
C6_RunOrdering == [](C6_State) /\ [][C6_Step]_vars

C6_Witness ==
    /\ phase = "Done"
    /\ Len(sections) = 2
    /\ sections[1].name = "Network"
    /\ Len(RequestsOf("Network")) = 3
    /\ Len(RequestsOf(sections[2].name)) = 1
    /\ Len(events) = 10
    /\ events[10].section = "summary"

Registered(name) == \E k \in 1..Len(registry) : registry[k].name = name

AllOutcomes(name, outcome) ==
    /\ ResponsesOf(name) # <<>>
    /\ \A k \in 1..Len(ResponsesOf(name)) : ResponsesOf(name)[k].outcome = outcome

HasErrorKey(name) == In("error", DictGet(report, name, NoResult))

\* C2 (error isolation): when every LLM call made for "Network" raised and
\* every call made for the other sections returned a JSON object, the report's
\* "Network" entry has an `error` key and no other entry has one; a section
\* all of whose calls failed is recognisable by an `error` key.
C2_ErrorIsolation ==
    phase = "Done" =>
        /\ (/\ AllOutcomes("Network", "raise")
            /\ \A i \in 1..Len(sections) :
                  sections[i].name # "Network" => AllOutcomes(sections[i].name, "object"))
           => /\ HasErrorKey("Network")
              /\ \A i \in 1..Len(sections) :
                    sections[i].name # "Network" => ~HasErrorKey(sections[i].name)
        /\ \A i \in 1..Len(sections) :
              AllOutcomes(sections[i].name, "raise") => HasErrorKey(sections[i].name)

\* C3 (never raises after loading): once the loader has returned, whatever
\* the section and summary LLM calls do and whichever output mode is used,
\* analyze_snapshot raises nothing and returns the report.
C3_NeverRaisesAfterLoad ==
    SnapshotLoaded =>
        /\ raised = "None"
        /\ phase # "Failed"

\* C4 (per-section fault isolation): an exception raised while a section is
\* processed (here: an LLM call of the section raising) becomes an
\* {"error", "traceback"} result of that section, and the later sections are
\* still processed.
C4_SectionFaultIsolation ==
    /\ \A i \in 1..Len(sections) :
          (/\ i < idx
           /\ \E k \in 1..Len(ResponsesOf(sections[i].name)) :
                 ResponsesOf(sections[i].name)[k].outcome = "raise")
          => {"error", "traceback"} \subseteq DictGet(report, sections[i].name, NoResult).keys
    /\ phase \in {"Summarizing", "Done"} => Len(report) = Len(sections)

\* C7 (summary always attempted): after the section loop, whatever the
\* sections' results, exactly one overall-summary LLM call has been issued and
\* the report has a `summary` entry; it has an `error` key when the call
\* raised and none when the call returned a JSON object.
C7_SummaryAlwaysAttempted ==
    (SnapshotLoaded /\ pc \in {"output", "returned", "raised"}) =>
        /\ Len(RequestsOf("summary")) = 1
        /\ Len(ResponsesOf("summary")) = 1
        /\ summary # NoResult
        /\ ResponsesOf("summary")[1].outcome = "raise" => In("error", summary)
        /\ ResponsesOf("summary")[1].outcome = "object" => ~In("error", summary)

\* C8 (setup failures are fatal, later ones are not): when the loader fails
\* the call raises with no LLM call made and no report built; when the loader
\* succeeded nothing is raised, failures end up as error records.
C8_SetupFailuresFatal ==
    /\ (~load_snapshot_data(env).ok /\ phase # "Loading") =>
          /\ raised = "RuntimeError" /\ phase = "Failed"
          /\ events = <<>> /\ report = <<>> /\ summary = NoResult
    /\ load_snapshot_data(env).ok => raised = "None"

----
\* Properties of the chunked analyses

\* the sections that analyze_with_chunking splits: a Network mapping, a list
\* of installed programs that can be categorized
IsChunkedInput(name, payload) ==
    \/ name = "Network" /\ payload.shape = "dict" /\ ~payload.hasError
    \/ name = "InstalledPrograms" /\ payload.shape = "list" /\ payload.elemsOk

\* the categories (components) that hold at least one item
CategoriesOf(name, payload) ==
    IF name = "Network" THEN SeqRange(payload.comps)
    ELSE {bucket_of(payload.items[k]) : k \in 1..Len(payload.items)}

CategoryEventsOf(name) ==
    SelectSeq(events, LAMBDA ev : ev.section = name
                                  /\ ev.unit \notin {"generic", "standard", "chunk_summary"})
CategoryRequestsOf(name) == SelectSeq(CategoryEventsOf(name), LAMBDA ev : ev.kind = "request")
CategoryResponsesOf(name) == SelectSeq(CategoryEventsOf(name), LAMBDA ev : ev.kind = "response")

\* the tag a chunked analyzer put on an issue or optimization
TagOf(item) == IF item.category # "-" THEN item.category ELSE item.component

IsRecentInstall(program) ==
    /\ program.date.form # "absent"
    /\ program.date.valid
    /\ program.date.daysAgo <= RecentDays

PriorityOrder == <<"recent", "security", "development", "utilities", "bloatware", "other">>

MatchesCategory(c, program) ==
    CASE c = "recent" -> IsRecentInstall(program)
      [] c = "other" -> TRUE
      [] OTHER -> \E k \in 1..Len(SOFTWARE_CATEGORIES) :
                     /\ SOFTWARE_CATEGORIES[k].name = c
                     /\ SOFTWARE_CATEGORIES[k].keywords \cap KeywordsIn(program.name) # {}

FirstMatch(program) ==
    PriorityOrder[CHOOSE k \in 1..Len(PriorityOrder) :
                      /\ MatchesCategory(PriorityOrder[k], program)
                      /\ \A j \in 1..(k - 1) : ~MatchesCategory(PriorityOrder[j], program)]

Occurrences(l, x) == Cardinality({k \in 1..Len(l) : l[k] = x})

RECURSIVE TotalSize(_)
TotalSize(bs) == IF bs = <<>> THEN 0 ELSE Len(Head(bs).val) + TotalSize(Tail(bs))

Categorized == pc = "categories" /\ compIdx = 1 /\ Len(sections) = 1

\* C12 (bucketing is a partition by first match): once a list of programs has
\* been categorized, the bucket sizes sum to the number of programs, every
\* program is in exactly one bucket, that bucket is the one of the first
\* matching predicate in the order recent, security, development, utilities,
\* bloatware, other, and a program that is a recent install and matches a
\* bloatware keyword is in "recent" and not in "bloatware".
C12_BucketingPartition ==
    Categorized =>
        LET programs == sections[1].val.items
        IN  /\ TotalSize(buckets) = Len(programs)
            /\ \A j \in 1..Len(programs) :
                  LET program == programs[j]
                      home == DictGet(buckets, FirstMatch(program), <<>>)
                  IN  /\ Occurrences(home, program) = Occurrences(programs, program)
                      /\ \A k \in 1..Len(buckets) :
                            buckets[k].name # FirstMatch(program)
                               => Occurrences(buckets[k].val, program) = 0
                      /\ (IsRecentInstall(program) /\ MatchesCategory("bloatware", program))
                            => /\ Occurrences(DictGet(buckets, "recent", <<>>), program) > 0
                               /\ Occurrences(DictGet(buckets, "bloatware", <<>>), program) = 0

\* the iteration order of the categories (components) of the section at hand
IterationOrder == IF IsPrograms(CurName) THEN DictKeys(buckets) ELSE Components

PositionIn(order, c) == CHOOSE k \in 1..Len(order) : order[k] = c

InChunkLoop == phase = "AnalyzingSections" /\ pc \in {"categories", "components"}

\* C13 (per-call isolation in chunked analysis): while a section is analyzed
\* category by category, every category call that raised or returned text
\* that is not JSON has left an error entry for its category, the categories
\* passed so far that are not empty have each had their one call, in the
\* iteration order, whatever the outcomes of the earlier calls, and every
\* call answered with a JSON object has its tagged issues among the
\* accumulated ones.
C13_PerCallIsolation ==
    InChunkLoop =>
        LET reqs == CategoryRequestsOf(CurName)
            resps == CategoryResponsesOf(CurName)
            cats == CategoriesOf(CurName, CurData)
            passed == {c \in cats : PositionIn(IterationOrder, c) < compIdx}
        IN  /\ \A k \in 1..Len(resps) :
                  resps[k].outcome \in {"raise", "garbage"}
                     => \E j \in 1..Len(compSummaries) :
                           compSummaries[j] = Line("Error analyzing", resps[k].unit)
            /\ {reqs[k].unit : k \in 1..Len(reqs)} = passed
            /\ Len(reqs) = Cardinality(passed)
            /\ \A k1, k2 \in 1..Len(reqs) :
                  k1 < k2 => PositionIn(IterationOrder, reqs[k1].unit)
                                < PositionIn(IterationOrder, reqs[k2].unit)
            /\ \A k \in 1..Len(resps) :
                  resps[k].outcome = "object"
                     => \E j \in 1..Len(allIssues) : TagOf(allIssues[j]) = resps[k].unit

\* the summary lines the category calls of a section left, in call order
RECURSIVE CategorySummaries(_)
CategorySummaries(resps) ==
    IF resps = <<>> THEN <<>>
    ELSE LET r == Head(resps)
             line == CASE r.outcome = "object" -> <<Line(upper(r.unit), "LLM summary")>>
                       [] r.outcome \in {"raise", "scalar"} -> <<Line("Error analyzing", r.unit)>>
                       [] OTHER -> <<>>
         IN  line \o CategorySummaries(Tail(resps))

ChunkSummaryResponsesOf(name) ==
    SelectSeq(events, LAMBDA ev : ev.section = name /\ ev.unit = "chunk_summary"
                                  /\ ev.kind = "response")

ChunkSummaryFailed(name) ==
    /\ ChunkSummaryResponsesOf(name) # <<>>
    /\ ChunkSummaryResponsesOf(name)[1].outcome # "object"

\* C14 (chunking fallback): when the cross-category summary call of an
\* analyzed chunked section failed, the section's result is an ordinary
\* result, not an error record, and its summary is the per-category summaries
\* joined in the order the categories were processed.
C14_ChunkingFallback ==
    \A i \in 1..Len(sections) :
        LET name == sections[i].name
            result == DictGet(report, name, NoResult)
        IN  (i < idx /\ ChunkSummaryFailed(name))
               => /\ result.shape = "dict"
                  /\ result.keys = {"issues", "optimizations", "summary"}
                  /\ result.summary = CategorySummaries(CategoryResponsesOf(name))
                  /\ result.summary # <<>>

C14_Witness ==
    /\ phase = "Done"
    /\ \E i \in 1..Len(sections) :
          LET name == sections[i].name
              resps == CategoryResponsesOf(name)
          IN  /\ ChunkSummaryFailed(name)
              /\ Len(resps) = 3
              /\ resps[1].outcome = "object" /\ resps[2].outcome = "raise"
              /\ resps[3].outcome = "object"
              /\ DictGet(report, name, NoResult).summary =
                    <<Line(upper(resps[1].unit), "LLM summary"),
                      Line("Error analyzing", resps[2].unit),
                      Line(upper(resps[3].unit), "LLM summary")>>

\* the items (issues or optimizations, by `key`) that the successful category
\* calls of a section returned, each with the `category` tag of its call
RECURSIVE ReturnedItems(_, _)
ReturnedItems(resps, key) ==
    IF resps = <<>> THEN <<>>
    ELSE LET r == Head(resps)
             items == IF r.outcome # "object" THEN <<>>
                      ELSE IF key = "issues" THEN LLMObject.issues
                      ELSE LLMObject.optimizations
         IN  [k \in 1..Len(items) |-> [items[k] EXCEPT !.category = r.unit]]
                \o ReturnedItems(Tail(resps), key)

\* C15 (chunked result shape): the result of an analyzed chunked section with
\* well-formed items has the keys of a non-chunked result, its issues are the
\* issues returned by the successful category calls, in processing order, its
\* optimizations likewise, and every element of both lists carries the
\* `category` tag of the call that produced it.
C15_ChunkedResultShape ==
    \A i \in 1..Len(sections) :
        LET name == sections[i].name
            payload == sections[i].val
            result == DictGet(report, name, NoResult)
            resps == CategoryResponsesOf(name)
        IN  (i < idx /\ IsChunkedInput(name, payload) /\ payload.elemsOk)
               => /\ result.shape = "dict"
                  /\ result.keys = LLMObject.keys
                  /\ result.issues = ReturnedItems(resps, "issues")
                  /\ result.optimizations = ReturnedItems(resps, "optimizations")

FailedCall(ev) == ev.kind = "response" /\ ev.outcome = "raise"

\* the except clause that caught the exception of a call logged an error for it
LoggedAsError(ev) ==
    \E k \in 1..Len(errorLog) :
        /\ errorLog[k].section = ev.section /\ errorLog[k].unit = ev.unit
        /\ errorLog[k].logger # "extract_json_from_response"

\* the error record a failed call leaves in the report
RecordedInReport(ev) ==
    CASE ev.unit \in {"generic", "standard"} ->
             In("error", DictGet(report, ev.section, NoResult))
      [] ev.unit = "overall" -> In("error", summary)
      [] OTHER -> TRUE

C16_State ==
    /\ inflight \in {0, 1}
    /\ \A k1, k2 \in 1..Len(events) :
          (k1 < k2 /\ events[k1].kind = "request" /\ events[k2].kind = "request")
             => <<events[k1].section, events[k1].unit>> # <<events[k2].section, events[k2].unit>>
    /\ \A k \in 1..Len(events) :
          FailedCall(events[k]) => LoggedAsError(events[k]) /\ RecordedInReport(events[k])

C16_Step ==
    (Len(events') = Len(events) + 1 /\ FailedCall(events'[Len(events')]))
       => LET ev == events'[Len(events')]
          IN  /\ raised' = "None" /\ phase' \in {"AnalyzingSections", "Summarizing"}
              /\ pc' \in {"section", "categories", "components", "output"}
              /\ (pc' \in {"categories", "components"})
                    => /\ compSummaries' = Append(compSummaries, Line("Error analyzing", ev.unit))
                       /\ compIdx' = compIdx + 1

\* C16 (no automatic retries): no unit of work (section, category, chunk
\* summary, overall summary) is ever requested from the LLM client twice, at
\* most one request is in flight, every call that raised is logged as an
\* error and leaves its error record (the section's or the summary's record,
\* the category's error line), and the step that handles the failure moves on
\* to the next unit without raising.
C16_NoRetries == [](C16_State) /\ [][C16_Step]_vars

C16_Witness ==
    /\ phase = "Done"
    /\ Len(SelectSeq(events, LAMBDA ev : ev.kind = "request")) = 5
    /\ FailedCall(events[2]) /\ FailedCall(events[8]) /\ FailedCall(events[10])
    /\ events[8].unit = "chunk_summary" /\ events[10].unit = "overall"
    /\ Len(errorLog) >= 3

IsImportant(issue) == issue.severity \in {"critical", "high"}

\* the issues of one section that the summary prompt has to list
ImportantOf(result) ==
    IF In("error", result) \/ ~In("issues", result) THEN <<>>
    ELSE SelectSeq(result.issues, IsImportant)

OverallRequests == SelectSeq(events, LAMBDA ev : ev.kind = "request" /\ ev.unit = "overall")

\* C17 (summary harvesting): the issues listed in the overall-summary prompt
\* are, section by section in report order, exactly the issues of severity
\* "critical" or "high" of the sections whose result has no `error` key, in
\* their order, each with the name of its section; no other issue is listed.
C17_SummaryHarvesting ==
    \A r \in 1..Len(OverallRequests) :
        LET items == OverallRequests[r].prompt.items
        IN  /\ \A k \in 1..Len(items) :
                  /\ items[k].severity \in {"critical", "high"}
                  /\ DictHas(report, items[k].section)
                  /\ ~In("error", DictGet(report, items[k].section, NoResult))
            /\ \A i \in 1..Len(report) :
                  LET listed == SelectSeq(items, LAMBDA it : it.section = report[i].name)
                      due == ImportantOf(report[i].val)
                  IN  /\ Len(listed) = Len(due)
                      /\ \A k \in 1..Len(due) : listed[k].severity = due[k].severity
            /\ \A k1, k2 \in 1..Len(items) :
                  k1 < k2 => DictIndex(report, items[k1].section, 1)
                                <= DictIndex(report, items[k2].section, 1)

C17_Witness ==
    /\ Len(OverallRequests) = 1
    /\ Len(report) = 2
    /\ In("error", report[1].val) /\ report[1].val.issues # <<>>
    /\ \E k \in 1..Len(report[2].val.issues) : report[2].val.issues[k].severity = "medium"
    /\ OverallRequests[1].prompt.items =
          <<[section |-> report[2].name, severity |-> "critical"],
            [section |-> report[2].name, severity |-> "high"]>>

NoJsonReply(ev) == ev.kind = "response" /\ ev.outcome = "garbage"

C18_State ==
    \A k \in 1..Len(events) :
        NoJsonReply(events[k])
           => /\ ~LoggedAsError(events[k])
              /\ events[k].unit \in {"generic", "standard"}
                    => DictGet(report, events[k].section, NoResult) = Sentinel
              /\ events[k].unit = "overall" => summary = Sentinel

C18_Step ==
    (Len(events') = Len(events) + 1 /\ NoJsonReply(events'[Len(events')]))
       => raised' = "None" /\ phase' \in {"AnalyzingSections", "Summarizing"}

WrapperParts == {"section_line", "instructions", "schema", "json_only"}

\* the requests whose prompt an analyzer built for a section or a category
AnalyzerRequest(ev) ==
    ev.kind = "request" /\ ev.unit \notin {"generic", "chunk_summary", "overall"}

\* C19 (wrapping contract): every prompt an analyzer sends for a section or
\* for a category of a chunked section names the section in its opening line
\* and holds the section line, the analyzer's instructions, the JSON-schema
\* template and the "Respond ONLY with valid JSON" instruction exactly once.
C19_WrappingContract ==
    \A k \in 1..Len(events) :
        AnalyzerRequest(events[k])
           => /\ events[k].prompt.names = events[k].section
              /\ \A part \in WrapperParts : Occurrences(events[k].prompt.parts, part) = 1

\* the run with an output directory, on the snapshot and with the LLM
\* outcomes of an earlier run without one, has ended
SecondRunEnded == first # <<>> /\ pc \in {"returned", "raised"}

\* C20 (logging does not affect analysis): a run with an output directory
\* configured ends with the same section results and summary as the run on
\* the same snapshot, with the same LLM call outcomes, without one, and has
\* issued the same LLM calls in the same order.
C20_LoggingDoesNotAffectAnalysis ==
    SecondRunEnded
       => /\ raised = first[1].raised
          /\ report = first[1].report
          /\ summary = first[1].summary
          /\ events = first[1].events

ArtifactsOf(name) ==
    SelectSeq(outFiles, LAMBDA f : f.kind = "Analysis" /\ f.section = name)

HoldsArtifact(name, result) ==
    Len(ArtifactsOf(name)) = 1 /\ ArtifactsOf(name)[1].val = result

\* C21 (per-section artifacts): when analyze_snapshot has returned, then with
\* an output directory configured there is exactly one artifact for every
\* section of the report and one for "summary", each holding the result the
\* report has for it, and nothing else; with no output directory no file has
\* been written.
C21_PerSectionArtifacts ==
    pc = "returned"
       => IF env.outputDir = "none" THEN outFiles = <<>>
          ELSE /\ \A i \in 1..Len(report) : HoldsArtifact(report[i].name, report[i].val)
               /\ HoldsArtifact("summary", summary)
               /\ \A k \in 1..Len(outFiles) :
                     outFiles[k].kind = "Analysis"
                        => outFiles[k].section \in DictKeySet(report) \cup {"summary"}

\* C22 (extract_key_metrics never raises): whatever the shape of its data, the
\* analysis of a section with a registered analyzer never fails while the
\* metrics are extracted or the prompt is built: its result is the
\* "Analysis failed" record only when an LLM call of the section raised.
C22_MetricsNeverRaise ==
    \A i \in 1..Len(sections) :
        LET name == sections[i].name
            resps == ResponsesOf(name)
        IN  (i < idx /\ Registered(name) /\ ~HasLoadError(sections[i].val)
               /\ DictGet(report, name, NoResult) = AnalysisFailed)
               => \E k \in 1..Len(resps) : resps[k].outcome = "raise"

GenericRequests == SelectSeq(events, LAMBDA ev : ev.kind = "request" /\ ev.unit = "generic")

\* C23 (truncation marker): the generic prompt of a section without an
\* analyzer embeds the whole JSON serialization of the section, without the
\* marker, when it is at most 10,000 characters long, and its first 10,000
\* characters followed by "... [truncated for length]" when it is longer.
C23_TruncationMarker ==
    \A k \in 1..Len(GenericRequests) :
        LET size == DictGet(sections, GenericRequests[k].section, Scalar).size
            embedded == GenericRequests[k].prompt.embedded
        IN  /\ size <= 10000 => embedded = [chars |-> size, marker |-> FALSE]
            /\ size > 10000 => embedded = [chars |-> 10000, marker |-> TRUE]

C23_Witness ==
    /\ phase = "Done"
    /\ Len(GenericRequests) = 1
    /\ sections[1].val.size = 10001
    /\ GenericRequests[1].prompt.embedded = [chars |-> 10000, marker |-> TRUE]

\* the section names of a sequence of registered classes, each at the place of
\* its first registration
RECURSIVE FirstRegistrations(_, _)
FirstRegistrations(log, seen) ==
    IF log = <<>> THEN <<>>
    ELSE IF section_name(Head(log)) \in seen THEN FirstRegistrations(Tail(log), seen)
    ELSE <<section_name(Head(log))>>
            \o FirstRegistrations(Tail(log), seen \cup {section_name(Head(log))})

\* C24 (listing of registered names): after any sequence of register
\* operations, re-registrations under an existing name included, the list of
\* registered names holds every registered section name exactly once, in the
\* order in which the names were first registered.
C24_RegisteredNames ==
    LET names == get_all_section_names(registry)
    IN  /\ names = FirstRegistrations(regLog, {})
        /\ {names[i] : i \in 1..Len(names)} = {section_name(regLog[i]) : i \in 1..Len(regLog)}
        /\ \A i, j \in 1..Len(names) : names[i] = names[j] => i = j

C24_Witness ==
    /\ regLog = <<"NetworkAnalyzer", "PathAnalyzer", "network.NetworkAnalyzer">>
    /\ get_all_section_names(registry) = <<"Network", "Path">>

\* analyze_with_chunking of InstalledProgramsAnalyzer hands the section to
\* analyze_standard itself when the programs cannot be categorized
FallsBack(name, payload) ==
    IsPrograms(name) /\ payload.shape = "list" /\ CategorizeRaises(payload)

\* C25 (dispatch): a section with a registered analyzer goes through the
\* chunked protocol exactly when its analyzer declares USES_CHUNKING (its LLM
\* calls are then category and summary calls, or the single call of the
\* protocol's own fallback), and otherwise exactly one LLM call, the standard
\* one, is issued for it.
C25_Dispatch ==
    \A i \in 1..Len(sections) :
        LET name == sections[i].name
            reqs == RequestsOf(name)
        IN  (i < idx /\ Registered(name) /\ ~HasLoadError(sections[i].val))
               => IF USES_CHUNKING(get_analyzer(registry, name))
                  THEN IF FallsBack(name, sections[i].val)
                       THEN Len(reqs) = 1 /\ reqs[1].unit = "standard"
                       ELSE \A k \in 1..Len(reqs) : reqs[k].unit # "standard"
                  ELSE Len(reqs) = 1 /\ reqs[1].unit = "standard"
\* the entries a category (component) of a chunked section holds
CategoryItems(name, payload, unit) ==
    IF name = "Network" THEN ComponentData(payload, unit)
    ELSE DictGet(categorize(payload.items, EmptyBuckets), unit, <<>>)

SampleCap(name) == IF name = "Network" THEN component_sample_limit ELSE sample_size

FirstItems(items, n) == SubSeq(items, 1, IF Len(items) < n THEN Len(items) ELSE n)

CallsFor(name, unit) == SelectSeq(CategoryRequestsOf(name), LAMBDA ev : ev.unit = unit)

\* the entries a category prompt is expected to be built from: the first 15
\* programs of a category; of a Network component of n > 5 entries the
\* first, second, (n div 2)-th, (n div 2 + 1)-th and last
ExpectedSample(name, items) ==
    IF name # "Network" THEN FirstItems(items, sample_size)
    ELSE IF Len(items) <= 5 THEN items
    ELSE <<items[1], items[2], items[Len(items) \div 2], items[Len(items) \div 2 + 1],
           items[Len(items)]>>

C27_CriticalDrives ==
    \A i \in 1..Len(sections) :
        (sections[i].name = "DiskSpace" /\ RequestsOf("DiskSpace") # <<>>)
           => /\ "drive_metrics" \in DOMAIN metrics
              /\ Len(metrics.drive_metrics) = Len(sections[i].val.items)
              /\ \A k \in 1..Len(sections[i].val.items) :
                    sections[i].val.items[k].PercentFree < 5
                       => /\ metrics.drive_metrics[k].status = "CRITICAL"
                          /\ \E j \in 1..Len(metrics.drives_critical) :
                                metrics.drives_critical[j] = sections[i].val.items[k].Name

C27_Witness ==
    /\ phase = "Done"
    /\ Len(sections) = 1
    /\ sections[1].name = "DiskSpace"
    /\ sections[1].val.items = <<Drive("C", 2, 50)>>
    /\ Len(RequestsOf("DiskSpace")) = 1
    /\ metrics.drive_metrics = <<[letter |-> "C", percent_free |-> 2, status |-> "CRITICAL"]>>
    /\ metrics.drives_critical = <<"C">>

\* the connections whose RemoteAddress has a colon and whose last
\* colon-separated token is a sensitive port
LastTokenSensitive(connections) ==
    SelectSeq(connections, LAMBDA conn : /\ Len(conn.remote) > 1
                                         /\ conn.remote[Len(conn.remote)] \in SENSITIVE_PORTS)

\* C28 (sensitive ports): the metrics of the registered Network analyzer
\* report, in order, exactly the connections whose remote address has a colon
\* and whose last colon-separated token is in the table of sensitive ports,
\* each with that token as its port.
C28_SensitivePorts ==
    \A i \in 1..Len(sections) :
        (sections[i].name = "Network" /\ "sensitive_ports" \in DOMAIN metrics)
           => LET expected == LastTokenSensitive(sections[i].val.items)
                  reported == metrics.sensitive_ports
              IN  /\ Len(reported) = Len(expected)
                  /\ \A k \in 1..Len(reported) :
                        /\ k <= Len(expected) => reported[k].remote = expected[k].remote
                        /\ reported[k].port = reported[k].remote[Len(reported[k].remote)]

ChunkSummaryRequestsOf(name) ==
    SelectSeq(events, LAMBDA ev : ev.section = name /\ ev.unit = "chunk_summary"
                                  /\ ev.kind = "request")

FixedSummary(name) == IF name = "Network" THEN NoAnalysisText ELSE NoProgramsAnalysisText

\* C29 (cross-category summary call): for an analyzed chunked section the
\* cross-category summary call is issued, once, exactly when a category call
\* left a summary entry or an error entry; when none did, the section's
\* summary is the fixed "No analysis could be generated ..." text; and the
\* section's LLM calls are its k category calls plus that summary call.
C29_SummaryCall ==
    \A i \in 1..Len(sections) :
        LET name == sections[i].name
            payload == sections[i].val
            entries == CategorySummaries(CategoryResponsesOf(name))
            calls == ChunkSummaryRequestsOf(name)
        IN  (i < idx /\ IsChunkedInput(name, payload))
               => /\ Len(calls) = IF entries # <<>> THEN 1 ELSE 0
                  /\ entries = <<>>
                        => DictGet(report, name, NoResult).summary = FixedSummary(name)
                  /\ Len(RequestsOf(name)) = Cardinality(CategoriesOf(name, payload)) + Len(calls)
\* C30 (recent installations): once chunked analysis has categorized a list
\* of installed programs, the number of programs in its "recent" bucket is
\* the recent_installations_count of the metrics the analyzer computed for
\* the same list.
C30_RecentCount ==
    (buckets # <<>> /\ "recent_installations_count" \in DOMAIN metrics)
       => Len(DictGet(buckets, "recent", <<>>)) = metrics.recent_installations_count

====
